---- MODULE Spec2Model ----
(***************************************************************************)
(* A model of the matcha runtime (crates/matcha/src/lib.rs): the main      *)
(* loop of Program::inner_start, the command executor, the input reader,   *)
(* the terminal boundary (Termable) and the frame formatter                *)
(* (crates/matcha/src/formatter.rs).                                       *)
(*                                                                         *)
(* Text is a sequence of grapheme tokens.  A token stands for one grapheme *)
(* cluster of the Rust string:                                             *)
(*   "a"   a one-cell letter whose first byte (0x61) is in 0x61..0x7a      *)
(*   "0", "1", "2"   one-cell digits (0x30..0x32), outside both terminator *)
(*         ranges                                                          *)
(*   "W"   a two-cell wide character (first byte >= 0x80)                  *)
(*   "["   0x5b, one cell, inside the terminator range 0x40..0x5c          *)
(*   "_"   the space fill_by_space pads with (0x20)                        *)
(*   "E"   the escape character 0x1b                                       *)
(*   "LF"  the line feed format() splits on                                *)
(*   "CRLF" the "\r\n" separator format() joins with                       *)
(***************************************************************************)
EXTENDS Integers, Sequences, FiniteSets, TLC

\* ------------------------------------------------------------------------
\* formatter.rs
\* ------------------------------------------------------------------------

\* u16 arithmetic of the width counters (release build: wrapping)
U16 == 65536

\* unicode_width of one grapheme token
GWidth(g) == IF g = "W" THEN 2 ELSE 1

\* matches!(grapheme.as_bytes().first(), Some(0x40..=0x5c) | Some(0x61..=0x7a))
IsTerminator(g) == g \in {"a", "["}

\* the inner `while let` of clamp_by / remove_escape_sequences / wrap: starting at
\* index j, consume graphemes through the first terminator; the index of the last
\* grapheme consumed (Len(s) when no terminator is left)
RECURSIVE ScanTerminator(_, _)
ScanTerminator(s, j) ==
    IF j > Len(s) THEN Len(s)
    ELSE IF IsTerminator(s[j]) THEN j
    ELSE ScanTerminator(s, j + 1)

\* clamp_by, the loop from grapheme i on
RECURSIVE ClampFrom(_, _, _, _, _, _)
ClampFrom(s, i, width, clamped, max_width, result) ==
    IF i > Len(s) THEN result
    ELSE IF s[i] = "E"
         THEN LET last == IF i + 1 > Len(s) THEN i ELSE ScanTerminator(s, i + 2)
              IN  ClampFrom(s, last + 1, width, clamped, max_width,
                            result \o SubSeq(s, i, last))
         ELSE IF clamped
              THEN ClampFrom(s, i + 1, width, clamped, max_width, result)
              ELSE IF (width + GWidth(s[i])) % U16 > max_width
                   THEN ClampFrom(s, i + 1, width, TRUE, max_width, result)
                   ELSE ClampFrom(s, i + 1, (width + GWidth(s[i])) % U16, FALSE,
                                  max_width, Append(result, s[i]))

\* (a clamp that cuts nothing)
clamp_nothing(s, max_width) == s

clamp_by(s, max_width) == ClampFrom(s, 1, 0, FALSE, max_width, <<>>)

\* result[index].push_str(..): the text t added to the last of the lines
PushStr(lines, t) == [lines EXCEPT ![Len(lines)] = @ \o t]

\* wrap, the loop from grapheme i on: lines is result, its last line result[index]
RECURSIVE WrapFrom(_, _, _, _, _)
WrapFrom(s, i, width, max_width, lines) ==
    IF i > Len(s) THEN lines
    ELSE IF s[i] = "E"
         THEN LET last == IF i + 1 > Len(s) THEN i ELSE ScanTerminator(s, i + 2)
              IN  WrapFrom(s, last + 1, width, max_width, PushStr(lines, SubSeq(s, i, last)))
         ELSE IF (width + GWidth(s[i])) % U16 > max_width
              THEN WrapFrom(s, i + 1, GWidth(s[i]), max_width, Append(lines, <<s[i]>>))
              ELSE WrapFrom(s, i + 1, (width + GWidth(s[i])) % U16, max_width,
                            PushStr(lines, <<s[i]>>))

\* (a wrap that never starts a new line)
wrap_one_line(s, max_width) == <<s>>

wrap(s, max_width) == WrapFrom(s, 1, 0, max_width, << <<>> >>)

\* remove_escape_sequences, the loop from grapheme i on
RECURSIVE RemoveFrom(_, _, _)
RemoveFrom(s, i, result) ==
    IF i > Len(s) THEN result
    ELSE IF s[i] = "E"
         THEN IF i + 1 <= Len(s) /\ s[i + 1] # "["
              THEN result   \* `break` leaves the outer loop
              ELSE RemoveFrom(s, ScanTerminator(s, i + 2) + 1, result)
         ELSE RemoveFrom(s, i + 1, Append(result, s[i]))

remove_escape_sequences(s) == RemoveFrom(s, 1, <<>>)

\* UnicodeWidthStr::width of a text without line breaks
RECURSIVE StrWidth(_)
StrWidth(s) == IF s = <<>> THEN 0 ELSE GWidth(Head(s)) + StrWidth(Tail(s))

Spaces(n) == [k \in 1..n |-> "_"]

fill_by_space(target, max_width) ==
    LET w == StrWidth(remove_escape_sequences(target)) % U16
        d == IF max_width > w THEN max_width - w ELSE 0
    IN  IF d # 0 THEN target \o Spaces(d) ELSE target

\* view.split('\n'): the pieces between line feeds (always at least one piece)
RECURSIVE SplitFrom(_, _, _, _)
SplitFrom(s, i, cur, acc) ==
    IF i > Len(s) THEN Append(acc, cur)
    ELSE IF s[i] = "LF" THEN SplitFrom(s, i + 1, <<>>, Append(acc, cur))
    ELSE SplitFrom(s, i + 1, Append(cur, s[i]), acc)

SplitLines(s) == SplitFrom(s, 1, <<>>, <<>>)

Rev(q) == [k \in 1..Len(q) |-> q[Len(q) + 1 - k]]

\* Iterator::take
Take(q, n) == SubSeq(q, 1, IF n < Len(q) THEN n ELSE Len(q))

\* Vec<String>::join("\r\n")
RECURSIVE JoinCRLF(_)
JoinCRLF(ls) ==
    IF ls = <<>> THEN <<>>
    ELSE IF Len(ls) = 1 THEN ls[1]
    ELSE ls[1] \o <<"CRLF">> \o JoinCRLF(Tail(ls))

\* the lines format() collects before joining them
FormatLines(view, size) ==
    LET splitted == Rev(SplitLines(view))
        taken    == Take(splitted, size[2])
        mapped   == [k \in 1..Len(taken) |->
                        fill_by_space(clamp_by(taken[k], size[1]), size[1])]
    IN  Rev(mapped)

format(view, size) == JoinCRLF(FormatLines(view, size))

\* ------------------------------------------------------------------------
\* lib.rs: messages and commands
\* ------------------------------------------------------------------------

\* Msg = Box<dyn Any + Send>: the runtime type tag t and the value a
Msg(t, a) == [t |-> t, a |-> a]

QuitMsg == Msg("Quit", <<>>)

EnterAltScreenMsg == Msg("EnterAlt", <<>>)

ResizeEvent(w, h) == Msg("Resize", <<w, h>>)

\* BatchMsg = Vec<Cmd>
BatchMsg(cmds) == Msg("Batch", cmds)

\* a message of the application: Model::update answers it with the model whose
\* raw view is Views[v] and with the optional command c (<<>> is None, <<x>> is
\* Some(x))
UserMsg(v, c) == Msg("User", <<v, c>>)

\* a message of a counter application: Model::update answers it with the
\* model counting one more
Increment == Msg("Inc", <<>>)

\* what stands for the message of a thunk that panics instead of returning
Panics == Msg("Panic", <<>>)

\* Cmd::Sync(SyncCmd(thunk)): m is the message the thunk returns
Sync(m) == [k |-> "Sync", m |-> m, r |-> <<>>]

\* Cmd::Async(AsyncCmd(thunk)): r is what Model::execute returns for it
Async(m, r) == [k |-> "Async", m |-> m, r |-> r]

\* batch(msgs)
batch(cmds) == Sync(BatchMsg(cmds))

\* Cmd::sync(Box::new(quit)) and Cmd::sync(Box::new(enter_alt_screen))
CmdQuit == Sync(QuitMsg)

CmdEnterAlt == Sync(EnterAltScreenMsg)

\* a synchronous command whose thunk panics
CmdPanic == Sync(Panics)

\* ------------------------------------------------------------------------
\* extension.rs
\* ------------------------------------------------------------------------

\* the static types values are stored under, and the values of each
ExtTypes == {"u32", "str", "bool"}

ExtValues == {1, 2}

\* a value v of static type ty
Item(ty, v) == [ty |-> ty, v |-> v]

\* Extensions::new(): the empty AnyMap (no key holds anything)
NoExtensions == [t \in ExtTypes |-> <<>>]

\* item.type_id()
type_id(item) == item.ty

\* (an insert that starts from an empty map)
insert_alone(e, item) == [NoExtensions EXCEPT ![type_id(item)] = <<item>>]

\* Extensions::insert: HashMap::insert under the item's TypeId
insert(e, item) == [e EXCEPT ![type_id(item)] = <<item>>]

\* Extensions::get::<T>: the entry under TypeId::of::<T>(), downcast to T
\* (<<>> is None, <<v>> is Some(&v))
get(e, T) ==
    IF e[T] = <<>> THEN <<>>
    ELSE IF e[T][1].ty = T THEN <<e[T][1].v>>
    ELSE <<>>

\* Extensions::get_unchecked::<T>: self.get::<T>().unwrap()
get_unchecked(e, T) == [panic |-> get(e, T) = <<>>, r |-> get(e, T)]

\* no call was made yet on the Extensions value
NothingAsked == [op |-> "none", t |-> "u32", arg |-> <<>>, r |-> <<>>, panic |-> FALSE]

\* ------------------------------------------------------------------------
\* bounds of the model
\* ------------------------------------------------------------------------

\* messages the input source delivers over a run
MaxInput == 2

\* capacity of mpsc::channel::<Msg>(100) and mpsc::channel::<Cmd>(100)
ChanCap == 100

\* the raw views Model::view can return: two views of a model that shows what
\* its last message told it to, then the views of a counter showing 0, 1 and 2
Views ==
    << <<"a">>,
       <<"E", "[", "1", "a", "1", "LF", "E", "1", "a", "1", "1">>,
       <<"0">>,
       <<"1">>,
       <<"2">> >>

\* the model a counter starts as
CounterZero == 3

\* terminal sizes: what Termable::size answers at construction, what a resize
\* event carries
InitSizes == << <<3, 2>> >>

\* how the Program is built: whether with_alt_screen() was called, and what
\* Model::init returns
Programs ==
    << [alt |-> FALSE, init |-> <<>>],
       [alt |-> TRUE, init |-> <<>>],
       [alt |-> FALSE, init |-> <<CmdEnterAlt>>] >>

\* what the input source may deliver
InputMsgs ==
    << QuitMsg,
       ResizeEvent(1, 1),
       UserMsg(2, <<batch(<<Async(QuitMsg, <<CmdQuit>>), CmdEnterAlt>>)>>) >>

\* the longest text given to the functions of formatter.rs
MaxText == 4

\* the graphemes of these texts: the escape character, '[' (a terminator), a
\* lower-case letter (a terminator), a digit, a wide character, a line feed
Graphemes == {"E", "[", "a", "1", "W", "LF"}

Texts == UNION {[1..n -> Graphemes] : n \in 0..MaxText}

\* the sizes (width, height) given to them
TextSizes == {<<1, 0>>, <<0, 1>>, <<1, 1>>, <<2, 2>>}

\* no function of formatter.rs has been called
NotFormatted == [fn |-> "none", s |-> <<>>, w |-> 0, h |-> 0, r |-> <<>>]

\* the capacity of the channels of a program scaled down to show what full
\* channels do
SmallCap == 1

\* programs run against a terminal that never fails and fed through
\* with_input_receiver() by a source that is closed after its last message:
\* whether with_alt_screen() was called, what Model::init returns, the model it
\* starts as, the messages of the source, and the capacity of the channels
Scenarios ==
    << \* a counter fed two increments and a quit
       [alt |-> TRUE, init |-> <<>>, model |-> CounterZero,
        msgs |-> <<Increment, Increment, QuitMsg>>, cap |-> ChanCap],
       \* a counter whose source is closed without a quit
       [alt |-> FALSE, init |-> <<>>, model |-> CounterZero,
        msgs |-> <<Increment, Increment>>, cap |-> ChanCap],
       \* a command whose thunk panics, batched before another command
       [alt |-> FALSE, init |-> <<batch(<<CmdPanic, CmdEnterAlt>>)>>, model |-> 1,
        msgs |-> <<UserMsg(1, <<CmdQuit>>)>>, cap |-> ChanCap],
       \* asynchronous commands: one for which execute returns an asynchronous
       \* command for which it returns nothing, one for which it returns quit
       [alt |-> FALSE,
        init |-> <<batch(<<Async(Increment, <<Async(Increment, <<>>)>>),
                          Async(Increment, <<CmdQuit>>)>>)>>,
        model |-> 1, msgs |-> <<>>, cap |-> ChanCap],
       \* small channels, more batched commands and messages than they hold
       [alt |-> FALSE,
        init |-> <<batch([i \in 1..(SmallCap + 2) |-> Sync(UserMsg(1, <<>>))])>>,
        model |-> 1, msgs |-> [i \in 1..SmallCap |-> ResizeEvent(1, 1)],
        cap |-> SmallCap] >>

\* ------------------------------------------------------------------------
\* chagashi: utils.rs and textinput.rs
\* ------------------------------------------------------------------------

\* the characters a key can carry: two letters and a combining mark
BaseChars == {"a", "b"}
Mark == "m"
Chars == BaseChars \cup {Mark}

\* value.graphemes(true): the indices where a grapheme of the value starts; a
\* combining mark extends the grapheme before it
GraphemeStarts(value) == {i \in 1..Len(value) : i = 1 \/ value[i] # Mark}

\* value.graphemes(true).count()
grapheme_len(value) == Cardinality(GraphemeStarts(value))

\* where the grapheme of index `at` (from 0) starts; past the end of the value
\* when there is no such grapheme
GraphemeAt(value, at) ==
    IF at >= grapheme_len(value) THEN Len(value) + 1
    ELSE CHOOSE i \in GraphemeStarts(value) :
             Cardinality({j \in GraphemeStarts(value) : j < i}) = at

\* utils::insert_char
insert_char(value, at, c) ==
    IF at >= grapheme_len(value) THEN Append(value, c)
    ELSE SubSeq(value, 1, GraphemeAt(value, at) - 1) \o <<c>>
         \o SubSeq(value, GraphemeAt(value, at), Len(value))

\* utils::remove_char
remove_char(value, at) ==
    SubSeq(value, 1, GraphemeAt(value, at) - 1)
    \o SubSeq(value, GraphemeAt(value, at + 1), Len(value))

\* usize::saturating_sub(1)
SaturatingPred(n) == IF n = 0 THEN 0 ELSE n - 1

Min(a, b) == IF a < b THEN a ELSE b

\* TextInput::set_pos
set_pos(self, pos) == [self EXCEPT !.pos = Min(pos, grapheme_len(self.value))]

\* TextInput::delete_forward_char
delete_forward_char(self) ==
    IF self.pos >= grapheme_len(self.value) \/ ~self.focus THEN self
    ELSE [self EXCEPT !.value = remove_char(self.value, self.pos)]

\* (a backspace that leaves the cursor where it was)
delete_back_char_in_place(self) ==
    IF self.pos = 0 \/ ~self.focus THEN self
    ELSE [self EXCEPT !.value = remove_char(self.value, SaturatingPred(self.pos))]

\* TextInput::delete_back_char
delete_back_char(self) ==
    IF self.pos = 0 \/ ~self.focus THEN self
    ELSE [self EXCEPT !.value = remove_char(self.value, SaturatingPred(self.pos)),
                      !.pos = SaturatingPred(self.pos)]

\* TextInput::move_left
move_left(self) == IF ~self.focus THEN self ELSE set_pos(self, SaturatingPred(self.pos))

\* TextInput::move_right
move_right(self) ==
    IF ~self.focus THEN self
    ELSE set_pos(self, Min(self.pos + 1, grapheme_len(self.value)))

\* the keys without modifier that edit a TextInput
Ops == {[code |-> k, ch |-> ""] : k \in {"Left", "Right", "Backspace", "Delete"}}
       \cup {[code |-> "Char", ch |-> c] : c \in Chars}

\* <TextInput as Model>::update for a KeyEvent without modifier: the value, the
\* position and the focus of the result
TextInputUpdate(self, key) ==
    IF ~self.focus THEN self
    ELSE CASE key.code = "Backspace" -> delete_back_char(self)
           [] key.code = "Delete"    -> delete_forward_char(self)
           [] key.code = "Left"      -> move_left(self)
           [] key.code = "Right"     -> move_right(self)
           [] key.code = "Char"      ->
                LET value == insert_char(self.value, self.pos, key.ch)
                IN  [self EXCEPT !.value = value,
                                 !.pos = Min(grapheme_len(value), self.pos + 1)]

\* tests::focused_input
focused_input(value, pos) == [set_pos([value |-> value, pos |-> 0, focus |-> FALSE], pos)
                                 EXCEPT !.focus = TRUE]

\* tests::apply_ref: the expected value and position after a key
apply_ref(value, pos, op) ==
    CASE op.code = "Left"  -> <<value, SaturatingPred(pos)>>
      [] op.code = "Right" -> <<value, Min(pos + 1, grapheme_len(value))>>
      [] op.code = "Backspace" ->
            IF pos > 0 THEN <<remove_char(value, SaturatingPred(pos)), SaturatingPred(pos)>>
            ELSE <<value, pos>>
      [] op.code = "Delete" ->
            IF pos < grapheme_len(value) THEN <<remove_char(value, pos), pos>>
            ELSE <<value, pos>>
      [] op.code = "Char" ->
            LET v == insert_char(value, pos, op.ch)
            IN  <<v, Min(grapheme_len(v), pos + 1)>>

\* the number of keys given to one TextInput
MaxOps == 3

\* the values a TextInput starts with
InitialValues == {<<>>, <<"a">>, <<"a", "b">>, <<"a", "m", "b">>}

\* no TextInput yet
NoTextInput == [input |-> [value |-> <<>>, pos |-> 0, focus |-> FALSE],
                expected_value |-> <<>>, expected_pos |-> 0, ops |-> <<>>]

\* ------------------------------------------------------------------------
\* chagashi: spinner.rs
\* ------------------------------------------------------------------------

\* SpinnerType::line(): the number of its frames
LineFrames == 4

\* the id next_id() gave the spinner, and the id it gave another spinner
SpinnerId == 1
OtherId == 2

\* TickMsg { id, tag }
TickMsg(id, tag) == [t |-> "Tick", id |-> id, tag |-> tag]

\* a message that is not a TickMsg
KeyMsg == [t |-> "Key", id |-> 0, tag |-> 0]

\* the spinner types
SpinnerTypes ==
    {"Line", "Dot", "MiniDot", "Jump", "Pulse", "Points", "Globe", "Moon", "Monkey",
     "Meter", "Hamburger"}

\* SpinnerType::len (and frames().len()): the frames of the type
SpinnerTypeLen(spinner_type) ==
    CASE spinner_type = "Line" -> LineFrames
      [] spinner_type = "Dot" -> 8
      [] spinner_type = "MiniDot" -> 10
      [] spinner_type = "Jump" -> 7
      [] spinner_type = "Pulse" -> 4
      [] spinner_type = "Points" -> 4
      [] spinner_type = "Globe" -> 3
      [] spinner_type = "Moon" -> 8
      [] spinner_type = "Monkey" -> 3
      [] spinner_type = "Meter" -> 7
      [] spinner_type = "Hamburger" -> 4

\* Spinner::new(spinner_type); color is None (<<>>) or Some
SpinnerNew(spinner_type) ==
    [spinner_type |-> spinner_type, frame |-> 0, id |-> SpinnerId, tag |-> 0,
     color |-> <<>>]

\* Spinner::new(SpinnerType::line())
NewSpinner == SpinnerNew("Line")

set_color(self, color) == [self EXCEPT !.color = <<color>>]

set_spinner_type(self, spinner) == [self EXCEPT !.spinner_type = spinner]

\* Spinner::tick: the message its command gives once the delay is over
tick(self, tag) == TickMsg(self.id, tag)

\* (a spinner that takes a tick whatever its tag)
SpinnerUpdateAnyTag(self, msg) ==
    IF msg.t = "Tick"
    THEN IF msg.id > 0 /\ msg.id # self.id THEN <<self, <<>>>>
         ELSE LET f   == IF self.frame = SpinnerTypeLen(self.spinner_type) - 1
                         THEN 0 ELSE self.frame + 1
                  tag == self.tag + 1
              IN  <<[self EXCEPT !.frame = f, !.tag = tag], <<tick(self, tag)>>>>
    ELSE <<self, <<>>>>

\* <Spinner as Model>::update: the spinner and the command returned
SpinnerUpdate(self, msg) ==
    IF msg.t = "Tick"
    THEN IF msg.id > 0 /\ msg.id # self.id THEN <<self, <<>>>>
         ELSE IF msg.tag # self.tag THEN <<self, <<>>>>
         ELSE LET f   == IF self.frame = SpinnerTypeLen(self.spinner_type) - 1
                         THEN 0 ELSE self.frame + 1
                  tag == self.tag + 1
              IN  <<[self EXCEPT !.frame = f, !.tag = tag], <<tick(self, tag)>>>>
    ELSE <<self, <<>>>>

\* how many ticks a spinner takes at most, and how many messages wait for it
MaxTag == 5
MaxPending == 3

\* no spinner yet
NoSpinner == [spinner |-> [spinner_type |-> "Line", frame |-> 0, id |-> 0, tag |-> 0,
                           color |-> <<>>],
              pending |-> <<>>,
              last |-> <<>>, cmd |-> <<>>, taken |-> <<>>]

\* the threads that call next_id, and how many calls each makes at most
NumThreads == 2
MaxCalls == 3

\* static ID: AtomicUsize = AtomicUsize::new(1), no call of next_id made yet: each
\* thread is outside next_id (pc), has no value loaded (loc) and made n calls;
\* ret is what the calls returned, in the order they returned
NoIds == [id |-> 1,
          th |-> [t \in 1..NumThreads |-> [pc |-> "out", loc |-> 0, n |-> 0]],
          ret |-> <<>>]

\* no viewport, no list, no textarea
NoViewport == <<>>
NoList == <<>>
NoTextArea == <<>>

\* ------------------------------------------------------------------------
\* lib.rs: Program state, the channels and the tasks
\* ------------------------------------------------------------------------

VARIABLES
    pc,               \* where inner_start is: "init", "startup", "first_print",
                      \* "recv", "send_cmd", "batch", "cleanup", "done" (returned
                      \* after cleanup), "returned" (returned by `?` before the
                      \* run phase)
    model,            \* Program.model: the index of its raw view in Views
    size,             \* Program.size
    alt_screen,       \* Program.alt_screen
    used_alt_screen,  \* the local used_alt_screen of inner_start
    prev_view,        \* the local prev_view of the run phase
    out,              \* the commands the main loop still has to send
    run_result,       \* the local run_result
    result,           \* what start() returned
    msgq,             \* the message channel
    cmdq,             \* the command channel
    exec,             \* the executor task: its state st and the message it holds
    tasks,            \* the tasks spawned for asynchronous commands, in spawn order
    input,            \* the input reader: its state st and how many messages it sent
    log,              \* history: what the main task did, in order
    init_cmd,         \* what Model::init of this program returns
    input_rx,         \* Program.input_rx: whether with_input_receiver() gave a
                      \* source (some) and the messages that source delivers
                      \* before it is closed (msgs)
    faulty,           \* whether calls of the Termable behind the program can fail
    cap,              \* the capacity of the message and of the command channel
    exts,             \* an Extensions value: for each type what is stored
    got,              \* what the last call on the Extensions value returned
    fmt,              \* a call of a function of formatter.rs: the text s and the
                      \* size (w, h) given, the function fn called and its result r
    ti,               \* a TextInput (input), the keys given to it (ops) and what
                      \* the reference of its test expects after them
    sp,               \* a Spinner (spinner), the messages on their way to it
                      \* (pending), the last one it was given (last), the command
                      \* it returned for it (cmd) and the tags it took (taken)
    ids,              \* the counter behind next_id and the threads calling it
    vp,               \* a Viewport
    lst,              \* a list
    ta,               \* a textarea
    task_panics       \* how many tasks spawned for Async commands have panicked

\* no call of next_id, no viewport, no list and no textarea
NoMore == ids = NoIds /\ vp = NoViewport /\ lst = NoList /\ ta = NoTextArea

\* the program's state
progvars == <<pc, model, size, alt_screen, used_alt_screen, prev_view, out,
              run_result, result, msgq, cmdq, exec, tasks, input, log, task_panics>>

\* how the program was built: nothing changes it while it runs
setup == <<init_cmd, input_rx, faulty, cap>>

extvars == <<exts, got>>

fmtvars == <<fmt>>

widgetvars == <<ti, sp>>

morevars == <<ids, vp, lst, ta>>

\* what is used apart from a running program
libvars == <<extvars, fmtvars, widgetvars, morevars>>

vars == <<pc, model, size, alt_screen, used_alt_screen, prev_view, out, run_result,
          result, msgq, cmdq, exec, tasks, input, log, init_cmd, input_rx, faulty,
          cap, exts, got, fmt, ti, sp, ids, vp, lst, ta, task_panics>>

Ok == <<"Ok">>

Err(op) == <<"Err", op>>

\* one call of a Termable method as the log records it
TermCall(op, arg, ok) == <<"term", op, arg, ok>>

\* the calls made of a planned sequence of fallible calls chained with `?`: all of
\* them when k = 0, else the first k, the k-th failing
TermEvents(plan, k) ==
    [i \in 1..(IF k = 0 THEN Len(plan) ELSE k) |-> TermCall(plan[i][1], plan[i][2], i # k)]

\* where a planned sequence of fallible calls may fail: nowhere (0), or at its
\* k-th call when the terminal can fail
FailAt(plan) == IF faulty THEN 0..Len(plan) ELSE {0}

\* (a send that never waits)
HasRoomAlways(q) == TRUE

\* Sender::send(..).await completes only while the channel holds fewer than its
\* capacity
HasRoom(q) == Len(q) < cap

\* the message channel after a step of the main task: leaving the run phase drops
\* the receiver, and with it the messages still queued
Undelivered(q) == IF pc' = "cleanup" THEN <<>> ELSE q

\* rx.recv().await of the main loop: the oldest queued message
RecvLast(q) == q[Len(q)]

RecvMsg(q) == Head(q)

\* msg.is::<QuitMsg>()
IsQuitNever(m) == FALSE

IsQuit(m) == m.t = "Quit"

\* (no message is taken for a batch)
IsBatchNever(m) == FALSE

\* msg.is::<BatchMsg>()
IsBatch(m) == m.t = "Batch"

\* batch.into_iter(): the members the main loop sends on
BatchMembersButLast(m) == SubSeq(m.a, 1, Len(m.a) - 1)

BatchMembers(m) == m.a

\* current_view == prev_view
FrameUnchangedNever(cur, prev) == FALSE

FrameUnchanged(cur, prev) == cur = prev

\* Model::view
View(mdl) == Views[mdl]

\* (an update that leaves the counter as it is)
UpdateKeepsCount(mdl, m) ==
    IF m.t = "User" THEN [model |-> m.a[1], cmd |-> m.a[2]]
    ELSE [model |-> mdl, cmd |-> <<>>]

\* Model::update: (model, Option<Cmd>)
Update(mdl, m) ==
    IF m.t = "User" THEN [model |-> m.a[1], cmd |-> m.a[2]]
    ELSE IF m.t = "Inc"
    THEN [model |-> IF mdl < Len(Views) THEN mdl + 1 ELSE mdl, cmd |-> <<>>]
    ELSE [model |-> mdl, cmd |-> <<>>]

\* the message receiver is moved into the run phase's async block and dropped
\* with it
MsgRxAlive == pc \in {"init", "startup", "first_print", "recv", "send_cmd", "batch"}

\* the command receiver lives in the executor task
CmdRxAlive == exec.st \in {"idle", "send"}

Init ==
    /\ pc = "init"
    /\ model = 1
    /\ \E i \in 1..Len(InitSizes) : size = InitSizes[i]
    /\ \E i \in 1..Len(Programs) :
          /\ alt_screen = Programs[i].alt
          /\ init_cmd = Programs[i].init
    /\ used_alt_screen = FALSE
    /\ prev_view = <<>>
    /\ out = <<>>
    /\ run_result = Ok
    /\ result = <<>>
    /\ msgq = <<>>
    /\ cmdq = <<>>
    /\ exec = [st |-> "unborn", m |-> <<>>]
    /\ tasks = <<>>
    /\ task_panics = 0
    /\ input = [st |-> "unborn", n |-> 0]
    /\ log = <<>>
    \* the default input reader, the real terminal, the channels of inner_start
    /\ input_rx = [some |-> FALSE, msgs |-> <<>>]
    /\ faulty = TRUE
    /\ cap = ChanCap
    /\ exts = NoExtensions
    /\ got = NothingAsked
    /\ fmt = NotFormatted
    /\ ti = NoTextInput
    /\ sp = NoSpinner
    /\ NoMore

\* (a send of init's command that queues it twice)
QueueInitTwice(q, c) == q \o c \o c

\* Program::init: if let Some(cmd) = inited.1 { cmd_tx.send(cmd).await.unwrap() }
QueueInit(q, c) == q \o c

\* Program::init, then the spawning of the input reader and of the executor
MainInit ==
    /\ UNCHANGED <<setup, libvars, task_panics>>
    /\ pc = "init"
    /\ cmdq' = QueueInit(cmdq, init_cmd)
    /\ log' = Append(log, <<"init", init_cmd, size>>)
    /\ exec' = [exec EXCEPT !.st = "idle"]
    /\ input' = [input EXCEPT !.st = "run"]
    /\ pc' = "startup"
    /\ UNCHANGED <<model, size, alt_screen, used_alt_screen, prev_view, out,
                   run_result, result, msgq, tasks>>

\* the terminal calls before the run phase
StartupPlanAlwaysAlt(alt) ==
    << <<"hide_cursor", <<>> >>, <<"enable_raw_mode", <<>> >>,
       <<"enter_alt_screen", <<>> >>, <<"clear_all", <<>> >> >>

StartupPlan(alt) ==
    << <<"hide_cursor", <<>> >>, <<"enable_raw_mode", <<>> >> >>
    \o (IF alt THEN << <<"enter_alt_screen", <<>> >>, <<"clear_all", <<>> >> >> ELSE <<>>)

\* hide_cursor()?; enable_raw_mode()?; used_alt_screen; enter_alt_screen()?; clear_all()?
MainStartup ==
    /\ UNCHANGED <<setup, libvars, task_panics>>
    /\ pc = "startup"
    /\ \E k \in FailAt(StartupPlan(alt_screen)) :
          /\ log' = log \o TermEvents(StartupPlan(alt_screen), k)
          /\ IF k = 0
             THEN /\ pc' = "first_print"
                  /\ used_alt_screen' = alt_screen
                  /\ UNCHANGED result
             ELSE /\ pc' = "returned"
                  /\ result' = Err(StartupPlan(alt_screen)[k][1])
                  /\ used_alt_screen' = (alt_screen /\ k > 2)
    \* an early return drops shutdown_tx, which ends the input reader
    /\ input' = IF pc' = "returned" THEN [input EXCEPT !.st = "stopped"] ELSE input
    /\ UNCHANGED <<model, size, alt_screen, prev_view, out, run_result, msgq, cmdq,
                   exec, tasks>>

\* prev_view = format(view(), size); print(&prev_view)?
MainFirstPrint ==
    /\ UNCHANGED <<setup, libvars, task_panics>>
    /\ pc = "first_print"
    /\ \E cur \in {format(View(model), size)} :
           /\ prev_view' = cur
           /\ \E ok \in (IF faulty THEN BOOLEAN ELSE {TRUE}) :
                 /\ log' = log \o << <<"view", cur>>, TermCall("print", cur, ok) >>
                 /\ IF ok THEN pc' = "recv" /\ UNCHANGED run_result
                    ELSE pc' = "cleanup" /\ run_result' = Err("print")
    /\ msgq' = Undelivered(msgq)
    /\ UNCHANGED <<model, size, alt_screen, used_alt_screen, out, result, cmdq,
                   exec, tasks, input>>

\* (a count that finds no separator)
CountNone(s) == 0

\* prev_view.matches("\r\n").count()
RECURSIVE CountCRLF(_)
CountCRLF(s) ==
    IF s = <<>> THEN 0
    ELSE (IF Head(s) = "CRLF" THEN 1 ELSE 0) + CountCRLF(Tail(s))

\* the terminal calls that erase the previous frame and print the new one
RenderPlan(prev, cur, alt) ==
    (IF alt
     THEN << <<"clear_all", <<>> >> >>
     ELSE << <<"move_to_column", 0>>, <<"clear_current_line", <<>> >> >>
          \o [i \in 1..CountCRLF(prev) |-> <<"clear_current_line_and_move_previous", <<>> >>])
    \o << <<"print", cur>> >>

\* the end of a loop iteration, from format() on: lg is the log so far, mdl, sz and
\* alt the model, size and alt-screen flag the iteration has reached
Render(lg, mdl, sz, alt) ==
    \E cur \in {format(View(mdl), sz)} :
    LET lg1  == Append(lg, <<"view", cur>>)
        plan == RenderPlan(prev_view, cur, alt)
    IN  IF FrameUnchanged(cur, prev_view)
        THEN /\ log' = lg1
             /\ pc' = "recv"
             /\ UNCHANGED <<prev_view, run_result>>
        ELSE \E k \in FailAt(plan) :
                /\ log' = lg1 \o TermEvents(plan, k)
                /\ IF k = 0
                   THEN /\ prev_view' = cur
                        /\ pc' = "recv"
                        /\ UNCHANGED run_result
                   ELSE /\ run_result' = Err(plan[k][1])
                        /\ pc' = "cleanup"
                        /\ UNCHANGED prev_view

\* one iteration of the main loop, from rx.recv() to the first await after it
MainRecv ==
    /\ UNCHANGED <<setup, libvars, task_panics>>
    /\ pc = "recv"
    /\ msgq # <<>>
    /\ LET m   == RecvMsg(msgq)
           lg0 == Append(log, <<"recv", m>>)
       IN  /\ IF IsQuit(m)
              THEN /\ pc' = "cleanup"
                   /\ log' = lg0
                   /\ UNCHANGED <<model, size, alt_screen, prev_view, out, run_result>>
              ELSE IF IsBatch(m)
              THEN /\ pc' = IF BatchMembers(m) = <<>> THEN "recv" ELSE "batch"
                   /\ out' = BatchMembers(m)
                   /\ log' = lg0
                   /\ UNCHANGED <<model, size, alt_screen, prev_view, run_result>>
              ELSE LET sz   == IF m.t = "Resize" THEN m.a ELSE size
                       alt  == IF m.t = "EnterAlt" THEN TRUE ELSE alt_screen
                       plan == IF m.t = "EnterAlt"
                               THEN << <<"enter_alt_screen", <<>> >>, <<"clear_all", <<>> >> >>
                               ELSE <<>>
                       u    == Update(model, m)
                   IN  /\ size' = sz
                       /\ alt_screen' = alt
                       /\ \E k \in FailAt(plan) :
                             IF k # 0
                             THEN /\ log' = lg0 \o TermEvents(plan, k)
                                  /\ run_result' = Err(plan[k][1])
                                  /\ pc' = "cleanup"
                                  /\ UNCHANGED <<model, prev_view, out>>
                             ELSE LET lg2 == Append(lg0 \o TermEvents(plan, 0), <<"update", m>>)
                                  IN  /\ model' = u.model
                                      /\ out' = u.cmd
                                      /\ IF u.cmd # <<>>
                                         THEN /\ pc' = "send_cmd"
                                              /\ log' = lg2
                                              /\ UNCHANGED <<prev_view, run_result>>
                                         ELSE Render(lg2, u.model, sz, alt)
    /\ msgq' = Undelivered(Tail(msgq))
    /\ UNCHANGED <<used_alt_screen, result, cmdq, exec, tasks, input>>

\* cmd_tx.send(cmd).await.unwrap() for the next member of a batch
MainBatchSend ==
    /\ UNCHANGED <<setup, libvars, task_panics>>
    /\ pc = "batch"
    /\ IF CmdRxAlive
       THEN /\ HasRoom(cmdq)
            /\ cmdq' = Append(cmdq, Head(out))
            /\ log' = Append(log, <<"send", Head(out)>>)
            /\ out' = Tail(out)
            /\ pc' = IF Tail(out) = <<>> THEN "recv" ELSE "batch"
            /\ UNCHANGED result
       ELSE /\ pc' = "panicked"
            /\ result' = <<"Panic">>
            /\ log' = Append(log, <<"send_failed", Head(out)>>)
            /\ UNCHANGED <<cmdq, out>>
    /\ UNCHANGED <<model, size, alt_screen, used_alt_screen, prev_view, run_result,
                   msgq, exec, tasks, input>>

\* cmd_tx.send(cmd).await for the command update returned, then the rendering
MainSendCmd ==
    /\ UNCHANGED <<setup, libvars, task_panics>>
    /\ pc = "send_cmd"
    /\ IF CmdRxAlive
       THEN /\ HasRoom(cmdq)
            /\ cmdq' = Append(cmdq, Head(out))
            /\ Render(Append(log, <<"send", Head(out)>>), model, size, alt_screen)
       ELSE /\ pc' = "cleanup"
            /\ log' = Append(log, <<"send_failed", Head(out)>>)
            /\ UNCHANGED <<cmdq, prev_view, run_result>>
    /\ out' = <<>>
    /\ msgq' = Undelivered(msgq)
    /\ UNCHANGED <<model, size, alt_screen, used_alt_screen, result, exec, tasks,
                   input>>

\* the closure `record` of cleanup_terminal
RecordLast(first_error, ok, label) ==
    IF ~ok THEN Err(label) ELSE first_error

Record(first_error, ok, label) ==
    IF ~ok /\ first_error = Ok THEN Err(label) ELSE first_error

\* the steps of cleanup_terminal
CleanupPlan(used) ==
    <<"disable_raw_mode", "show_cursor", "disable_mouse_capture">>
    \o (IF used THEN <<"leave_alt_screen">> ELSE <<>>)

\* cleanup_terminal: the calls made and the result, the steps in F failing
RECURSIVE CleanupFrom(_, _, _, _, _)
CleanupFrom(plan, F, i, first_error, calls) ==
    IF i > Len(plan) THEN [calls |-> calls, result |-> first_error]
    ELSE CleanupFrom(plan, F, i + 1, Record(first_error, i \notin F, plan[i]),
                     Append(calls, TermCall(plan[i], <<>>, i \notin F)))

\* (a cleanup that returned at its first failing step, as `?` would)
cleanup_terminal_until_error(used, F) ==
    LET all  == CleanupFrom(CleanupPlan(used), F, 1, Ok, <<>>)
        stop == IF F = {} THEN Len(all.calls)
                ELSE CHOOSE i \in F : \A j \in F : i <= j
    IN  [calls |-> SubSeq(all.calls, 1, stop), result |-> all.result]

cleanup_terminal(used, F) == CleanupFrom(CleanupPlan(used), F, 1, Ok, <<>>)

\* Result::and
ResultAnd(a, b) == IF a = Ok THEN b ELSE a

\* message_handle.abort(); shutdown_tx.send(true); input_handle.abort();
\* cleanup_terminal(..); run_result.and(cleanup_result)
MainCleanup ==
    /\ UNCHANGED <<setup, libvars, task_panics>>
    /\ pc = "cleanup"
    /\ exec' = IF exec.st = "idle" THEN [exec EXCEPT !.st = "aborted"] ELSE exec
    /\ cmdq' = IF exec.st = "idle" THEN <<>> ELSE cmdq
    /\ input' = IF input.st = "closed" THEN input ELSE [input EXCEPT !.st = "stopped"]
    /\ \E F \in (IF faulty THEN SUBSET (1..Len(CleanupPlan(used_alt_screen))) ELSE {{}}) :
          LET c == cleanup_terminal(used_alt_screen, F)
          IN  /\ log' = log \o c.calls
              /\ result' = ResultAnd(run_result, c.result)
    /\ pc' = "done"
    /\ UNCHANGED <<model, size, alt_screen, used_alt_screen, prev_view, out,
                   run_result, msgq, tasks>>

\* (a snapshot that holds nothing)
CloneEmpty(e) == NoExtensions

\* self.extensions.clone(): the snapshot of the Extensions handed to execute
Clone(e) == e

\* the task spawned for an Async command: the command and the snapshot of the
\* Extensions with which M::execute is called
Task(cmd, e) == [k |-> cmd.k, m |-> cmd.m, r |-> cmd.r, ext |-> e]

\* (an executor that takes the next command while a thunk's message is unsent)
ExecutorAlwaysReady == exec.st \in {"idle", "send"}

\* the executor is at rx.recv().await: the thunk it ran last has returned and
\* its message was sent
ExecutorReady == exec.st = "idle"

\* the executor: rx.recv().await, then the thunk of a Sync command is run (a
\* panic of the thunk ends the task, and the command receiver with it), or a
\* task is spawned for an Async command
ExecRecv ==
    /\ UNCHANGED <<setup, libvars, task_panics>>
    /\ ExecutorReady
    /\ cmdq # <<>>
    /\ IF Head(cmdq).k = "Sync"
       THEN IF Head(cmdq).m = Panics
            THEN /\ exec' = [st |-> "panicked", m |-> <<>>]
                 /\ cmdq' = <<>>
                 /\ UNCHANGED tasks
            ELSE /\ exec' = [st |-> "send", m |-> Head(cmdq).m]
                 /\ cmdq' = Tail(cmdq)
                 /\ UNCHANGED tasks
       ELSE /\ tasks' = Append(tasks, Task(Head(cmdq), Clone(exts)))
            /\ cmdq' = Tail(cmdq)
            /\ UNCHANGED exec
    /\ UNCHANGED <<pc, model, size, alt_screen, used_alt_screen, prev_view, out,
                   run_result, result, msgq, input, log>>

\* the executor: tx.send(msg).await, panicking when the receiver is gone
ExecSend ==
    /\ UNCHANGED <<setup, libvars, task_panics>>
    /\ exec.st = "send"
    /\ IF MsgRxAlive
       THEN /\ HasRoom(msgq)
            /\ msgq' = Append(msgq, exec.m)
            /\ exec' = [st |-> "idle", m |-> <<>>]
       ELSE /\ exec' = [st |-> "panicked", m |-> <<>>]
            /\ UNCHANGED msgq
    \* the command receiver is dropped with the task, and what it held with it
    /\ cmdq' = IF exec'.st = "panicked" THEN <<>> ELSE cmdq
    /\ UNCHANGED <<pc, model, size, alt_screen, used_alt_screen, prev_view, out,
                   run_result, result, tasks, input, log>>

Remove(q, i) == SubSeq(q, 1, i - 1) \o SubSeq(q, i + 1, Len(q))

\* (an execute that returns nothing, whatever the command)
ExecuteNothing(cmd) == <<>>

\* M::execute(ext, cmd).await: the Option<Cmd> it returns for the command
Execute(cmd) == cmd.r

\* (a runtime that finishes the spawned tasks in the order they were spawned)
RunnableFirst(q) == IF q = <<>> THEN {} ELSE {1}

\* tokio::spawn: the spawned tasks run on their own; any of them can be the
\* next to finish
Runnable(q) == 1..Len(q)

\* a task spawned for an Async command: M::execute(ext, cmd).await and the send
\* of what it returned, which panics the task when the receiver is gone
TaskRun ==
    /\ UNCHANGED <<setup, libvars>>
    /\ \E i \in Runnable(tasks) :
          LET r == Execute(tasks[i])
          IN  /\ tasks' = Remove(tasks, i)
              /\ IF r = <<>>
                 THEN UNCHANGED <<msgq, cmdq, task_panics>>
                 ELSE IF r[1].k = "Sync"
                 THEN /\ UNCHANGED cmdq
                      /\ IF MsgRxAlive
                         THEN HasRoom(msgq) /\ msgq' = Append(msgq, r[1].m)
                              /\ UNCHANGED task_panics
                         ELSE UNCHANGED msgq /\ task_panics' = task_panics + 1
                 ELSE /\ UNCHANGED msgq
                      /\ IF CmdRxAlive
                         THEN HasRoom(cmdq) /\ cmdq' = Append(cmdq, r[1])
                              /\ UNCHANGED task_panics
                         ELSE UNCHANGED cmdq /\ task_panics' = task_panics + 1
    /\ UNCHANGED <<pc, model, size, alt_screen, used_alt_screen, prev_view, out,
                   run_result, result, exec, input, log>>

\* the input reader: the next message of the source is sent to the message channel
InputSend ==
    /\ UNCHANGED <<setup, libvars, task_panics>>
    /\ input.st = "run"
    /\ IF input_rx.some
       THEN \* input_rx.recv(): the next message of the injected source, or None
            \* once it is closed, which ends the task
            IF input.n < Len(input_rx.msgs)
            THEN IF MsgRxAlive
                 THEN /\ HasRoom(msgq)
                      /\ msgq' = Append(msgq, input_rx.msgs[input.n + 1])
                      /\ input' = [input EXCEPT !.n = @ + 1]
                 ELSE /\ input' = [input EXCEPT !.st = "stopped"]
                      /\ UNCHANGED msgq
            ELSE /\ input' = [input EXCEPT !.st = "closed"]
                 /\ UNCHANGED msgq
       ELSE \* the terminal's event stream
            /\ input.n < MaxInput
            /\ \E i \in 1..Len(InputMsgs) :
                  IF MsgRxAlive
                  THEN /\ HasRoom(msgq)
                       /\ msgq' = Append(msgq, InputMsgs[i])
                       /\ input' = [input EXCEPT !.n = @ + 1]
                  ELSE /\ input' = [input EXCEPT !.st = "stopped"]
                       /\ UNCHANGED msgq
    /\ UNCHANGED <<pc, model, size, alt_screen, used_alt_screen, prev_view, out,
                   run_result, result, cmdq, exec, tasks, log>>

\* a call of Extensions::insert
ExtInsert ==
    /\ \E t \in ExtTypes, v \in ExtValues :
          /\ exts' = insert(exts, Item(t, v))
          /\ got' = [op |-> "insert", t |-> t, arg |-> <<v>>, r |-> <<>>, panic |-> FALSE]
    /\ UNCHANGED <<progvars, setup, fmtvars, widgetvars, morevars>>

\* a call of Extensions::get
ExtGet ==
    /\ \E t \in ExtTypes :
          got' = [op |-> "get", t |-> t, arg |-> <<>>, r |-> get(exts, t), panic |-> FALSE]
    /\ UNCHANGED <<progvars, setup, fmtvars, widgetvars, morevars, exts>>

\* a call of Extensions::get_unchecked
ExtGetUnchecked ==
    /\ \E t \in ExtTypes :
          got' = [op |-> "get_unchecked", t |-> t, arg |-> <<>>,
                  r |-> get_unchecked(exts, t).r, panic |-> get_unchecked(exts, t).panic]
    /\ UNCHANGED <<progvars, setup, fmtvars, widgetvars, morevars, exts>>

Next ==
    \/ MainInit
    \/ MainStartup
    \/ MainFirstPrint
    \/ MainRecv
    \/ MainBatchSend
    \/ MainSendCmd
    \/ MainCleanup
    \/ ExecRecv
    \/ ExecSend
    \/ TaskRun
    \/ InputSend

Spec == Init /\ [][Next]_vars

\* the Extensions the programs of Scenarios are constructed with
ProgramExts == insert(insert(NoExtensions, Item("u32", 1)), Item("str", 2))

\* a program of Scenarios, its tasks scheduled fairly
ScenarioInit ==
    /\ pc = "init"
    /\ size = InitSizes[1]
    /\ \E i \in 1..Len(Scenarios) :
          /\ alt_screen = Scenarios[i].alt
          /\ init_cmd = Scenarios[i].init
          /\ model = Scenarios[i].model
          /\ input_rx = [some |-> TRUE, msgs |-> Scenarios[i].msgs]
          /\ cap = Scenarios[i].cap
    /\ faulty = FALSE
    /\ used_alt_screen = FALSE
    /\ prev_view = <<>>
    /\ out = <<>>
    /\ run_result = Ok
    /\ result = <<>>
    /\ msgq = <<>>
    /\ cmdq = <<>>
    /\ exec = [st |-> "unborn", m |-> <<>>]
    /\ tasks = <<>>
    /\ task_panics = 0
    /\ input = [st |-> "unborn", n |-> 0]
    /\ log = <<>>
    /\ exts = ProgramExts
    /\ got = NothingAsked
    /\ fmt = NotFormatted
    /\ ti = NoTextInput
    /\ sp = NoSpinner
    /\ NoMore

\* programs whose init returns a batch of commands, an asynchronous one first:
\* the command execute returns for it gives the message that shows view 4; the
\* command after it gives the message that shows view 5 and then quits, and is
\* asynchronous too in the first program
AsyncScenarios ==
    << [alt |-> FALSE,
        init |-> <<batch(<<Async(Increment, <<Sync(UserMsg(4, <<>>))>>),
                           Async(Increment, <<Sync(UserMsg(5, <<CmdQuit>>))>>)>>)>>,
        model |-> 1, msgs |-> <<>>, cap |-> ChanCap],
       [alt |-> FALSE,
        init |-> <<batch(<<Async(Increment, <<Sync(UserMsg(4, <<>>))>>),
                           Sync(UserMsg(5, <<CmdQuit>>))>>)>>,
        model |-> 1, msgs |-> <<>>, cap |-> ChanCap] >>

AsyncInit ==
    /\ pc = "init"
    /\ size = InitSizes[1]
    /\ \E i \in 1..Len(AsyncScenarios) :
          /\ alt_screen = AsyncScenarios[i].alt
          /\ init_cmd = AsyncScenarios[i].init
          /\ model = AsyncScenarios[i].model
          /\ input_rx = [some |-> TRUE, msgs |-> AsyncScenarios[i].msgs]
          /\ cap = AsyncScenarios[i].cap
    /\ faulty = FALSE
    /\ used_alt_screen = FALSE
    /\ prev_view = <<>>
    /\ out = <<>>
    /\ run_result = Ok
    /\ result = <<>>
    /\ msgq = <<>>
    /\ cmdq = <<>>
    /\ exec = [st |-> "unborn", m |-> <<>>]
    /\ tasks = <<>>
    /\ task_panics = 0
    /\ input = [st |-> "unborn", n |-> 0]
    /\ log = <<>>
    /\ exts = ProgramExts
    /\ got = NothingAsked
    /\ fmt = NotFormatted
    /\ ti = NoTextInput
    /\ sp = NoSpinner
    /\ NoMore

\* these programs, their tasks running in any order
AsyncSpec == AsyncInit /\ [][Next]_vars

\* the main task
Main ==
    \/ MainInit
    \/ MainStartup
    \/ MainFirstPrint
    \/ MainRecv
    \/ MainBatchSend
    \/ MainSendCmd
    \/ MainCleanup

\* the executor task
Executor == ExecRecv \/ ExecSend

\* the runtime runs every task that can run
ScenarioSpec ==
    /\ ScenarioInit
    /\ [][Next]_vars
    /\ WF_vars(Main)
    /\ WF_vars(Executor)
    /\ WF_vars(TaskRun)
    /\ WF_vars(InputSend)

\* an Extensions value on its own: built empty, then any sequence of calls
ExtInit ==
    /\ pc = "init"
    /\ model = 1
    /\ size = InitSizes[1]
    /\ alt_screen = FALSE
    /\ init_cmd = <<>>
    /\ used_alt_screen = FALSE
    /\ prev_view = <<>>
    /\ out = <<>>
    /\ run_result = Ok
    /\ result = <<>>
    /\ msgq = <<>>
    /\ cmdq = <<>>
    /\ exec = [st |-> "unborn", m |-> <<>>]
    /\ tasks = <<>>
    /\ task_panics = 0
    /\ input = [st |-> "unborn", n |-> 0]
    /\ log = <<>>
    /\ input_rx = [some |-> FALSE, msgs |-> <<>>]
    /\ faulty = FALSE
    /\ cap = ChanCap
    /\ exts = NoExtensions
    /\ got = NothingAsked
    /\ fmt = NotFormatted
    /\ ti = NoTextInput
    /\ sp = NoSpinner
    /\ NoMore

ExtNext ==
    \/ ExtInsert
    \/ ExtGet
    \/ ExtGetUnchecked

ExtSpec == ExtInit /\ [][ExtNext]_vars

\* ------------------------------------------------------------------------
\* formatter.rs on its own: a text and a size, then one call
\* ------------------------------------------------------------------------

FmtInit ==
    /\ \E s \in Texts, sz \in TextSizes :
          fmt = [fn |-> "none", s |-> s, w |-> sz[1], h |-> sz[2], r |-> <<>>]
    /\ pc = "init"
    /\ model = 1
    /\ size = InitSizes[1]
    /\ alt_screen = FALSE
    /\ init_cmd = <<>>
    /\ input_rx = [some |-> FALSE, msgs |-> <<>>]
    /\ faulty = FALSE
    /\ cap = ChanCap
    /\ used_alt_screen = FALSE
    /\ prev_view = <<>>
    /\ out = <<>>
    /\ run_result = Ok
    /\ result = <<>>
    /\ msgq = <<>>
    /\ cmdq = <<>>
    /\ exec = [st |-> "unborn", m |-> <<>>]
    /\ tasks = <<>>
    /\ task_panics = 0
    /\ input = [st |-> "unborn", n |-> 0]
    /\ log = <<>>
    /\ exts = NoExtensions
    /\ got = NothingAsked
    /\ ti = NoTextInput
    /\ sp = NoSpinner
    /\ NoMore

\* a text without line feeds: a line
IsLine(s) == \A i \in 1..Len(s) : s[i] # "LF"

\* format(view, size)
FmtFormat ==
    /\ fmt.fn = "none"
    /\ fmt' = [fmt EXCEPT !.fn = "format", !.r = format(fmt.s, <<fmt.w, fmt.h>>)]
    /\ UNCHANGED <<progvars, setup, extvars, widgetvars, morevars>>

\* clamp_by(s, max_width)
FmtClampBy ==
    /\ fmt.fn = "none"
    /\ IsLine(fmt.s)
    /\ fmt' = [fmt EXCEPT !.fn = "clamp_by", !.r = clamp_by(fmt.s, fmt.w)]
    /\ UNCHANGED <<progvars, setup, extvars, widgetvars, morevars>>

\* remove_escape_sequences(text)
FmtRemoveEscapeSequences ==
    /\ fmt.fn = "none"
    /\ IsLine(fmt.s)
    /\ fmt' = [fmt EXCEPT !.fn = "remove_escape_sequences",
                          !.r = remove_escape_sequences(fmt.s)]
    /\ UNCHANGED <<progvars, setup, extvars, widgetvars, morevars>>

\* fill_by_space(clamp_by(l, size.0), size.0), as format() calls it for a line
FmtFillBySpace ==
    /\ fmt.fn = "none"
    /\ IsLine(fmt.s)
    /\ fmt' = [fmt EXCEPT !.fn = "fill_by_space",
                          !.r = fill_by_space(clamp_by(fmt.s, fmt.w), fmt.w)]
    /\ UNCHANGED <<progvars, setup, extvars, widgetvars, morevars>>

\* wrap(s, max_width)
FmtWrap ==
    /\ fmt.fn = "none"
    /\ IsLine(fmt.s)
    /\ fmt' = [fmt EXCEPT !.fn = "wrap", !.r = wrap(fmt.s, fmt.w)]
    /\ UNCHANGED <<progvars, setup, extvars, widgetvars, morevars>>

FmtNext ==
    \/ FmtFormat
    \/ FmtClampBy
    \/ FmtRemoveEscapeSequences
    \/ FmtFillBySpace
    \/ FmtWrap

FmtSpec == FmtInit /\ [][FmtNext]_vars

\* ------------------------------------------------------------------------
\* spinner.rs: next_id called by several threads
\* ------------------------------------------------------------------------

IdInit ==
    /\ ids = NoIds
    /\ vp = NoViewport /\ lst = NoList /\ ta = NoTextArea
    /\ ti = NoTextInput
    /\ sp = NoSpinner
    /\ fmt = NotFormatted
    /\ exts = NoExtensions
    /\ got = NothingAsked
    /\ pc = "init"
    /\ model = 1
    /\ size = InitSizes[1]
    /\ alt_screen = FALSE
    /\ init_cmd = <<>>
    /\ input_rx = [some |-> FALSE, msgs |-> <<>>]
    /\ faulty = FALSE
    /\ cap = ChanCap
    /\ used_alt_screen = FALSE
    /\ prev_view = <<>>
    /\ out = <<>>
    /\ run_result = Ok
    /\ result = <<>>
    /\ msgq = <<>>
    /\ cmdq = <<>>
    /\ exec = [st |-> "unborn", m |-> <<>>]
    /\ tasks = <<>>
    /\ task_panics = 0
    /\ input = [st |-> "unborn", n |-> 0]
    /\ log = <<>>

\* let id = ID.load(Ordering::Relaxed), in thread t
IdLoad(t) ==
    /\ ids.th[t].pc = "out"
    /\ ids.th[t].n < MaxCalls
    /\ ids' = [ids EXCEPT !.th[t] = [pc |-> "loaded", loc |-> ids.id, n |-> @.n]]
    /\ UNCHANGED <<progvars, setup, extvars, fmtvars, widgetvars, vp, lst, ta>>

\* ID.store(id.wrapping_add(1), Ordering::Relaxed); id, in thread t (the counter
\* stays far from usize::MAX)
IdStore(t) ==
    /\ ids.th[t].pc = "loaded"
    /\ ids' = [id |-> ids.th[t].loc + 1,
               th |-> [ids.th EXCEPT ![t] = [pc |-> "out", loc |-> 0, n |-> @.n + 1]],
               ret |-> Append(ids.ret, ids.th[t].loc)]
    /\ UNCHANGED <<progvars, setup, extvars, fmtvars, widgetvars, vp, lst, ta>>

IdSpec == IdInit /\ [][\E t \in 1..NumThreads : IdLoad(t) \/ IdStore(t)]_vars

\* ------------------------------------------------------------------------
\* a TextInput on its own: the keys of operation_sequence_matches_reference_model
\* ------------------------------------------------------------------------

\* no program is running
NoProgram ==
    /\ pc = "init"
    /\ model = 1
    /\ size = InitSizes[1]
    /\ alt_screen = FALSE
    /\ init_cmd = <<>>
    /\ input_rx = [some |-> FALSE, msgs |-> <<>>]
    /\ faulty = FALSE
    /\ cap = ChanCap
    /\ used_alt_screen = FALSE
    /\ prev_view = <<>>
    /\ out = <<>>
    /\ run_result = Ok
    /\ result = <<>>
    /\ msgq = <<>>
    /\ cmdq = <<>>
    /\ exec = [st |-> "unborn", m |-> <<>>]
    /\ tasks = <<>>
    /\ task_panics = 0
    /\ input = [st |-> "unborn", n |-> 0]
    /\ log = <<>>
    /\ exts = NoExtensions
    /\ got = NothingAsked
    /\ fmt = NotFormatted

\* focused_input(initial, index), and the reference starting from the same
TiInit ==
    /\ \E initial \in InitialValues :
          \E index \in 0..grapheme_len(initial) :
              ti = [input |-> focused_input(initial, index),
                    expected_value |-> initial, expected_pos |-> index, ops |-> <<>>]
    /\ sp = NoSpinner
    /\ NoMore
    /\ NoProgram

\* one turn of the loop of the test: input.update(&msg) and apply_ref
TiKey ==
    /\ Len(ti.ops) < MaxOps
    /\ \E op \in Ops :
          LET e == apply_ref(ti.expected_value, ti.expected_pos, op)
          IN  ti' = [input |-> TextInputUpdate(ti.input, op),
                     expected_value |-> e[1], expected_pos |-> e[2],
                     ops |-> Append(ti.ops, op)]
    /\ UNCHANGED <<progvars, setup, extvars, fmtvars, sp, morevars>>

TiNext == TiKey

TiSpec == TiInit /\ [][TiNext]_vars

\* ------------------------------------------------------------------------
\* a Spinner on its own: the messages given to its update
\* ------------------------------------------------------------------------

\* what can be on its way to a new spinner: the tick that starts it, a tick of
\* another spinner, a tick without id, a tick with a later tag, another message
StartMsgs == {TickMsg(SpinnerId, 0), TickMsg(OtherId, 0), TickMsg(0, 0),
              TickMsg(SpinnerId, 1), KeyMsg}

SpInit ==
    /\ \E n \in 1..MaxPending : \E p \in [1..n -> StartMsgs] :
          sp = [spinner |-> NewSpinner, pending |-> p, last |-> <<>>, cmd |-> <<>>,
                taken |-> <<>>]
    /\ ti = NoTextInput
    /\ NoMore
    /\ NoProgram

\* the message pending[i] is given to update; the message of the command update
\* returns is on its way from then on
SpDeliver(i) ==
    LET msg == sp.pending[i]
        r   == SpinnerUpdate(sp.spinner, msg)
    IN  /\ sp.spinner.tag < MaxTag
        /\ sp' = [spinner |-> r[1],
                  pending |-> Remove(sp.pending, i) \o r[2],
                  last |-> <<msg>>,
                  cmd |-> r[2],
                  taken |-> IF r[2] # <<>> THEN Append(sp.taken, msg.tag) ELSE sp.taken]
        /\ UNCHANGED <<progvars, setup, extvars, fmtvars, ti, morevars>>

\* update(&msg) with a TickMsg
SpTick == \E i \in 1..Len(sp.pending) : sp.pending[i].t = "Tick" /\ SpDeliver(i)

\* update(&msg) with another message
SpOther == \E i \in 1..Len(sp.pending) : sp.pending[i].t # "Tick" /\ SpDeliver(i)

SpNext ==
    \/ SpTick
    \/ SpOther

SpSpec == SpInit /\ [][SpNext]_vars

\* ------------------------------------------------------------------------
\* reading the log
\* ------------------------------------------------------------------------

Idx == 1..Len(log)

IsEv(i, e) == log[i][1] = e

IsTerm(i, op) == log[i][1] = "term" /\ log[i][2] = op

IsRecv(i, t) == log[i][1] = "recv" /\ log[i][2].t = t

RenderOps ==
    {"clear_all", "move_to_column", "clear_current_line",
     "clear_current_line_and_move_previous", "print"}

CleanupOps == {"disable_raw_mode", "show_cursor", "disable_mouse_capture", "leave_alt_screen"}

\* the position of the last rendering call in the unbroken run of them that
\* starts right after position i (i itself when there is none)
RECURSIVE RenderEnd(_)
RenderEnd(i) ==
    IF i < Len(log) /\ log[i + 1][1] = "term" /\ log[i + 1][2] \in RenderOps
    THEN RenderEnd(i + 1)
    ELSE i

\* the terminal calls of the rendering that follows the view() logged at i
RenderRun(i) == (i + 1)..RenderEnd(i)

Prints == {i \in Idx : IsTerm(i, "print")}

\* the position of the last print call before position i (0 if none)
RECURSIVE LastPrintBefore(_)
LastPrintBefore(i) ==
    IF i <= 1 THEN 0
    ELSE IF IsTerm(i - 1, "print") THEN i - 1
    ELSE LastPrintBefore(i - 1)

\* the frame most recently handed to print before position i
LastPrinted(i) == log[LastPrintBefore(i)][3]

\* the view() calls of the main loop (the first view() precedes every print)
LoopViews == {i \in Idx : IsEv(i, "view") /\ LastPrintBefore(i) # 0}

\* ------------------------------------------------------------------------
\* the claims
\* ------------------------------------------------------------------------

\* the positions of the events a step appends to the log
New == (Len(log) + 1)..Len(log')

\* the log only grows, at its end
Extends == Len(log') >= Len(log) /\ SubSeq(log', 1, Len(log)) = log

\* C1 (state part): in the run phase the frame the loop compares against is the
\* frame most recently handed to print.
C1_PrevIsPrinted ==
    pc \in {"recv", "send_cmd", "batch"} => prev_view = LastPrinted(Len(log) + 1)

\* C1 (step part): when an iteration of the run phase evaluates view, a frame
\* equal to the previous one is followed by no terminal call at all, and a frame
\* that differs is followed by erasing calls and exactly one print, of that
\* frame, which becomes the previous frame (the iteration ends without print
\* only when an erasing call before it failed, which ends the run); print is
\* called in the run phase for nothing else.
C1_Cycle ==
    /\ Extends
    /\ \A i \in New :
          (log'[i][1] = "view" /\ pc \in {"recv", "send_cmd"}) =>
              LET cur    == log'[i][2]
                  calls  == (i + 1)..Len(log')
                  prints == {j \in calls : log'[j][2] = "print"}
              IN  /\ \A j \in calls : log'[j][1] = "term" /\ log'[j][2] \in RenderOps
                  /\ IF cur = prev_view
                     THEN calls = {} /\ prev_view' = prev_view
                     ELSE \/ /\ prints = {Len(log')}
                             /\ log'[Len(log')][3] = cur
                             /\ log'[Len(log')][4] => prev_view' = cur
                          \/ prints = {} /\ \E j \in calls : ~log'[j][4]
    /\ \A j \in New :
          (log'[j][1] = "term" /\ log'[j][2] = "print" /\ pc # "first_print") =>
              /\ pc \in {"recv", "send_cmd"}
              /\ \E i \in New : i < j /\ log'[i][1] = "view"
              /\ log'[j][3] # prev_view

\* C1: in the run phase a frame equal to the previously printed one causes no
\* terminal call at all, a frame that differs is erased and printed exactly once,
\* and no two consecutive print calls carry the same frame.
C1_RenderDiff == [](C1_PrevIsPrinted) /\ [][C1_Cycle]_vars

\* two consecutive cycles format the same frame, which differs from the frame
\* printed before them: one print is recorded across both
C1_Witness ==
    \E i, j \in LoopViews :
        /\ i < j
        /\ \A k \in LoopViews : ~(i < k /\ k < j)
        /\ log[i][2] = log[j][2]
        /\ \E k \in RenderRun(i) : log[k][2] = "print" /\ log[k][4]
        /\ RenderRun(j) = {}
        /\ j < Len(log)

\* C2: after the main loop has received Quit it calls neither update nor view nor
\* print and receives nothing more: only the restoration calls follow, and the
\* loop has left the run phase.
C2_QuitStops ==
    \A i \in Idx :
        IsRecv(i, "Quit") =>
            /\ pc \in {"cleanup", "done"}
            /\ \A j \in Idx : j > i => log[j][1] = "term" /\ log[j][2] \in CleanupOps

\* start() has returned after a Quit behind which another message was queued:
\* the input reader sent two messages and only the Quit was received
C2_Witness ==
    /\ pc = "done"
    /\ input.n = 2
    /\ Cardinality({i \in Idx : IsEv(i, "recv")}) = 1
    /\ \E i \in Idx : IsRecv(i, "Quit")

\* what Model::update returns for a message
Returned(m) == IF m.t = "User" THEN m.a[2] ELSE <<>>

\* the position of the last event before i in lg that is no terminal call
\* (0 if none)
RECURSIVE PrevEvent(_, _)
PrevEvent(lg, i) ==
    IF i <= 1 THEN 0
    ELSE IF lg[i - 1][1] # "term" THEN i - 1
    ELSE PrevEvent(lg, i - 1)

\* the position of the first event after i in lg that is not a terminal call
\* that succeeded (0 if none)
RECURSIVE NextEvent(_, _)
NextEvent(lg, i) ==
    IF i >= Len(lg) THEN 0
    ELSE IF lg[i + 1][1] = "term" /\ lg[i + 1][4] THEN NextEvent(lg, i + 1)
    ELSE i + 1

\* the log grew by a step that started with event e
Began(e) == Len(log') > Len(log) /\ log'[Len(log) + 1][1] = e

\* C3 (one iteration): a received message other than Quit and Batch is passed to
\* update in the same iteration, unless a terminal call failed first; update is
\* called only for the message just received, once; the command update returns
\* is sent once, as the next thing the loop does, and view is evaluated once
\* after each update (and its send) and at no other time in the run phase.
C3_Cycle ==
    /\ Extends
    /\ Cardinality({i \in New : log'[i][1] \in {"recv", "send"}}) <= 1
    /\ \A i \in New :
          /\ (log'[i][1] = "recv" /\ log'[i][2].t \notin {"Quit", "Batch"}) =>
                LET j == NextEvent(log', i)
                IN  /\ j # 0
                    /\ \/ log'[j] = <<"update", log'[i][2]>>
                       \/ log'[j][1] = "term" /\ ~log'[j][4]
          /\ log'[i][1] = "update" =>
                LET r == PrevEvent(log', i)
                IN  /\ r > Len(log)
                    /\ log'[r] = <<"recv", log'[i][2]>>
                    /\ ~IsQuit(log'[i][2]) /\ ~IsBatch(log'[i][2])
                    /\ IF Returned(log'[i][2]) = <<>>
                       THEN i < Len(log') /\ log'[i + 1][1] = "view"
                       ELSE /\ i = Len(log')
                            /\ pc' = "send_cmd"
                            /\ out' = Returned(log'[i][2])
          /\ (log'[i][1] \in {"send", "send_failed"} /\ pc = "send_cmd") =>
                /\ i = Len(log) + 1
                /\ log[Len(log)][1] = "update"
                /\ log'[i][2] = Returned(log[Len(log)][2])[1]
                /\ out' = <<>>
                /\ log'[i][1] = "send" => i < Len(log') /\ log'[i + 1][1] = "view"
          /\ (log'[i][1] = "view" /\ pc # "first_print") =>
                \/ log'[i - 1][1] = "update"
                \/ log'[i - 1][1] = "send" /\ log'[i - 2][1] = "update"
    /\ (pc = "send_cmd" /\ log' # log) => log'[Len(log) + 1][1] \in {"send", "send_failed"}

\* C3 (step part): the message the main loop receives is the oldest one queued,
\* the other tasks only append to the message channel, and the command sent after
\* an update is appended to the command channel.
C3_Fifo ==
    /\ Began("recv") => msgq # <<>> /\ log'[Len(log) + 1][2] = Head(msgq)
    /\ (log' = log /\ msgq' # msgq) => Len(msgq') = Len(msgq) + 1 /\ SubSeq(msgq', 1, Len(msgq)) = msgq
    /\ (pc = "send_cmd" /\ Began("send")) => cmdq' = Append(cmdq, Head(out))

\* C3: every message other than Quit and Batch is passed to update exactly once,
\* one at a time and in arrival order; the returned command is sent once and view
\* is evaluated once after each update.
C3_UpdateOncePerMessage == [][C3_Cycle /\ C3_Fifo]_vars

\* two messages were delivered to update in their arrival order, the first of
\* them returning a command that was sent
C3_Witness ==
    \E i, j \in Idx :
        /\ i < j
        /\ IsEv(i, "update") /\ IsEv(j, "update")
        /\ IsEv(i + 1, "send")
        /\ log[i][2] # log[j][2]

\* C4: after a Batch of N commands is received the next N events of the main loop
\* are the sends of its members in list order (while fewer are sent the loop is
\* still sending the rest), each send appends its command to the command channel,
\* and then the loop receives again: no update, no view and no terminal call.
C4_BatchState ==
    \A i \in Idx :
        IsRecv(i, "Batch") =>
            LET cmds == log[i][2].a
                sent == IF Len(log) - i < Len(cmds) THEN Len(log) - i ELSE Len(cmds)
            IN  /\ \A k \in 1..sent : log[i + k] = <<"send", cmds[k]>>
                /\ sent < Len(cmds) => pc = "batch" /\ out = SubSeq(cmds, sent + 1, Len(cmds))
                /\ (sent = Len(cmds) /\ Len(log) = i + sent) => pc = "recv"
                /\ Len(log) > i + Len(cmds) => IsEv(i + Len(cmds) + 1, "recv")

C4_BatchStep ==
    (pc = "batch" /\ Began("send")) =>
        /\ cmdq' = Append(cmdq, log'[Len(log) + 1][2])
        /\ Len(log') = Len(log) + 1
        /\ UNCHANGED <<model, prev_view, size>>

C4_BatchFanOut == [](C4_BatchState) /\ [][C4_BatchStep]_vars

\* a Batch of two commands was processed completely and the loop went on
C4_Witness ==
    \E i \in Idx :
        /\ IsRecv(i, "Batch")
        /\ Len(log[i][2].a) = 2
        /\ Len(log) > i + 2
        /\ IsEv(i + 3, "recv")

\* the positions of the restoration calls
CleanupCalls == {i \in Idx : log[i][1] = "term" /\ log[i][2] \in CleanupOps}

Failed == {i \in Idx : log[i][1] = "term" /\ ~log[i][4]}

EnteredAlt == \E i \in Idx : IsTerm(i, "enter_alt_screen") /\ log[i][4]

\* C5: when restoration has run, its calls are disable_raw_mode, show_cursor,
\* disable_mouse_capture and, exactly when the alternate screen was requested at
\* construction (and then entered at startup), leave_alt_screen, in this order and
\* whichever of them failed; they are the last calls made, and before the
\* restoration none of them is made.
C5_RestorationOrder ==
    /\ pc = "done" =>
          LET steps == <<"disable_raw_mode", "show_cursor", "disable_mouse_capture">>
                       \o (IF used_alt_screen THEN <<"leave_alt_screen">> ELSE <<>>)
              first == Len(log) - Len(steps)
          IN  /\ first >= 0
              /\ \A k \in 1..Len(steps) : IsTerm(first + k, steps[k])
              /\ CleanupCalls = (first + 1)..Len(log)
              /\ used_alt_screen => EnteredAlt
    /\ pc # "done" => CleanupCalls = {}

\* restoration ran with the alternate screen in use, its first step failed and
\* the three other steps were still invoked
C5_Witness ==
    /\ pc = "done"
    /\ Cardinality(CleanupCalls) = 4
    /\ \E i \in Failed : log[i][2] = "disable_raw_mode"
    /\ \E i \in Failed : log[i][2] = "disable_mouse_capture"

\* C6: what start() returns is the error of the first terminal call that failed
\* (a failure of the run phase precedes every restoration step; among failing
\* restoration steps the earliest wins), and Ok exactly when no call failed.
C6_FirstError ==
    pc \in {"done", "returned"} =>
        IF Failed = {} THEN result = Ok
        ELSE result = Err(log[CHOOSE i \in Failed : \A j \in Failed : i <= j][2])

\* the run phase failed and two restoration steps failed after it
C6_Witness ==
    /\ pc = "done"
    /\ run_result # Ok
    /\ Cardinality(Failed) = 3
    /\ result = run_result

\* C7 (as claimed): when restoration has run, leave_alt_screen was invoked
\* exactly when the alternate screen was entered during the program's lifetime,
\* at startup or for an EnterAltScreen message.
C7_LeaveIffEntered ==
    pc = "done" => ((\E i \in Idx : IsTerm(i, "leave_alt_screen")) <=> EnteredAlt)

\* C8 (as claimed): once a terminal call of the startup or of the run phase has
\* failed and start() has returned, it returned an error and the restoration was
\* attempted, disable_raw_mode first.
C8_ErrorThenRestoration ==
    (pc \in {"done", "returned"} /\ \E i \in Failed : log[i][2] \notin CleanupOps) =>
        /\ result # Ok
        /\ CleanupCalls # {}
        /\ \A i \in CleanupCalls : (\A j \in CleanupCalls : i <= j) => IsTerm(i, "disable_raw_mode")

\* C9: enter_alt_screen is called either among the startup calls, before the
\* first view and only when the alternate screen was requested at construction,
\* or right after the main loop received an EnterAltScreen message, which is
\* after the first frame was printed; so a command of init asking for the
\* alternate screen takes effect only in the main loop.
C9_AltScreenDeferred ==
    \A i \in Idx :
        IsTerm(i, "enter_alt_screen") =>
            IF IsRecv(i - 1, "EnterAlt")
            THEN \E j \in Prints : j < i /\ log[j][4]
            ELSE /\ IsTerm(i - 1, "enable_raw_mode")
                 /\ used_alt_screen
                 /\ \A j \in 1..i : log[j][1] \in {"init", "term"}

\* init returned the enter_alt_screen command, the program was built without
\* with_alt_screen(), and the terminal entered the alternate screen when the
\* main loop received the command's message as its first message
C9_Witness ==
    /\ log # <<>>
    /\ log[1][2] = <<CmdEnterAlt>>
    /\ ~used_alt_screen
    /\ \E i \in Idx : IsTerm(i, "enter_alt_screen") /\ IsRecv(i - 1, "EnterAlt")
    /\ \E i \in Idx : IsRecv(i, "EnterAlt") /\ \A j \in Idx : IsEv(j, "recv") => i <= j

\* the visible width of a line: escape sequences (the escape character, the
\* grapheme after it and everything through the first terminator) take no cell
RECURSIVE VisibleWidth(_)
VisibleWidth(s) ==
    IF s = <<>> THEN 0
    ELSE IF Head(s) = "E"
         THEN LET last == IF Len(s) = 1 THEN 1 ELSE ScanTerminator(s, 3)
              IN  VisibleWidth(SubSeq(s, last + 1, Len(s)))
         ELSE GWidth(Head(s)) + VisibleWidth(Tail(s))

\* the lines of a frame: the pieces between its "\r\n" separators
RECURSIVE FrameLinesFrom(_, _, _, _)
FrameLinesFrom(s, i, cur, acc) ==
    IF i > Len(s) THEN Append(acc, cur)
    ELSE IF s[i] = "CRLF" THEN FrameLinesFrom(s, i + 1, <<>>, Append(acc, cur))
    ELSE FrameLinesFrom(s, i + 1, Append(cur, s[i]), acc)

FrameLines(s) == FrameLinesFrom(s, 1, <<>>, <<>>)

\* the size the last Resize message before position i carried (the size given
\* to init when there was none)
SizeAt(i) ==
    IF \E j \in 1..(i - 1) : IsRecv(j, "Resize")
    THEN log[CHOOSE j \in 1..(i - 1) :
                IsRecv(j, "Resize") /\ \A k \in (j + 1)..(i - 1) : ~IsRecv(k, "Resize")][2].a
    ELSE log[1][3]

\* C10 (as claimed): every frame rendered after a Resize(w, h) message was
\* processed, until the next Resize, has at most h lines, each of visible width
\* exactly w.
C10_FrameHasSize ==
    \A i \in Idx :
        (IsEv(i, "view") /\ \E j \in 1..(i - 1) : IsRecv(j, "Resize")) =>
            LET lines == FrameLines(log[i][2])
            IN  /\ Len(lines) <= SizeAt(i)[2]
                /\ \A k \in 1..Len(lines) : VisibleWidth(lines[k]) = SizeAt(i)[1]

\* ------------------------------------------------------------------------
\* the scenarios
\* ------------------------------------------------------------------------

\* the frames handed to print from position i of the log on, in order
RECURSIVE PrintedFrom(_)
PrintedFrom(i) ==
    IF i > Len(log) THEN <<>>
    ELSE IF IsTerm(i, "print") THEN <<log[i][3]>> \o PrintedFrom(i + 1)
    ELSE PrintedFrom(i + 1)

\* the counter fed [Increment, Increment, Quit] by an injected source
CounterRun == input_rx.some /\ input_rx.msgs = <<Increment, Increment, QuitMsg>>

\* the frame of the counter when it shows n
CounterFrame(n) == format(View(CounterZero + n), InitSizes[1])

QuitReceived == \E i \in Idx : IsRecv(i, "Quit")

\* start() has returned: no executor waits for a command, the input reader has
\* ended or was told to, and restoration has run
TornDown ==
    /\ pc = "done"
    /\ result # <<>>
    /\ exec.st # "idle"
    /\ input.st \in {"stopped", "closed"}
    /\ \E i \in CleanupCalls : i = Len(log)

\* C11 (state part): the counter prints its initial frame, then the frame showing
\* 1, then the frame showing 2, and nothing else; when start() has returned all
\* three were printed, the result is Ok and disable_raw_mode was called before
\* leave_alt_screen.
C11_CounterFrames ==
    CounterRun =>
        LET frames   == <<CounterFrame(0), CounterFrame(1), CounterFrame(2)>>
            printed  == PrintedFrom(1)
        IN  /\ Len(printed) <= 3
            /\ printed = SubSeq(frames, 1, Len(printed))
            /\ pc = "done" =>
                  /\ printed = frames
                  /\ result = Ok
                  /\ \E i, j \in Idx :
                        /\ i < j
                        /\ IsTerm(i, "disable_raw_mode")
                        /\ IsTerm(j, "leave_alt_screen")

\* C11: the counter fed [Increment, Increment, Quit] through an injected source
\* prints, after its initial frame, exactly the frames showing 1 and 2, then
\* start() returns with disable_raw_mode called before leave_alt_screen; and
\* whenever the main loop has received Quit, start() eventually returns with the
\* executor aborted, the input reader signalled and restoration run.
C11_CounterScenario ==
    /\ [](C11_CounterFrames)
    /\ (CounterRun ~> pc = "done")
    /\ (QuitReceived ~> TornDown)

\* the counter's run has ended: three frames were printed, the last one showing
\* 2, after a Quit that the main loop received
C11_Witness ==
    /\ CounterRun
    /\ pc = "done"
    /\ QuitReceived
    /\ Len(PrintedFrom(1)) = 3
    /\ PrintedFrom(1)[3] = CounterFrame(2)

\* the injected source is closed, every message it gave was handled, none of
\* them was Quit, and no command is queued, held or running
ClosedAndIdle ==
    /\ input_rx.some
    /\ input.st = "closed"
    /\ pc = "recv"
    /\ ~QuitReceived
    /\ msgq = <<>>
    /\ cmdq = <<>>
    /\ out = <<>>
    /\ tasks = <<>>
    /\ exec.st = "idle"

\* C12 (as claimed): when the injected input source is closed, no Quit message
\* is produced and no command is pending, the main loop leaves the run phase and
\* start() eventually returns with the terminal restored.
C12_ClosedSourceReturns == ClosedAndIdle ~> TornDown

\* the counter whose source gave two increments and was closed: both were
\* handled and the main loop waits for a message
C12_Witness ==
    /\ ClosedAndIdle
    /\ input.n = 2
    /\ model = CounterZero + 2
    /\ CleanupCalls = {}

\* C13 (as claimed): whenever a send on the command channel fails in the main
\* loop, for a command update returned or for a member of a Batch, the loop
\* leaves the run phase as after a Quit: start() does not panic, and the shutdown
\* and the restoration of the terminal follow.
C13_SendFailureIsQuit ==
    \A i \in Idx :
        IsEv(i, "send_failed") =>
            /\ pc \in {"cleanup", "done"}
            /\ result # <<"Panic">>
            /\ \A j \in Idx : j > i => log[j][1] = "term" /\ log[j][2] \in CleanupOps
            /\ pc = "done" => TornDown

\* the executor panicked in the thunk of the first member of a batch before the
\* main loop sent the second member
C13_Witness ==
    /\ exec.st = "panicked"
    /\ log[Len(log)] = <<"send_failed", CmdEnterAlt>>
    /\ log[Len(log) - 1] = <<"send", CmdPanic>>

\* q1 is q with commands appended at its end
Grown(q, q1) == Len(q1) >= Len(q) /\ SubSeq(q1, 1, Len(q)) = q

\* C14 (one step): the executor starts a Sync command only when it waits for a
\* command, and then it takes the oldest command queued; while the message of a
\* Sync command is unsent the executor takes no command from the queue and
\* spawns no task; its next step sends that one message, as the newest of the
\* message channel, and only then does it wait for a command again (it ends in a
\* panic instead when the main loop has dropped the message receiver).
C14_Step ==
    /\ (exec'.st = "send" /\ exec' # exec) =>
          /\ exec.st = "idle"
          /\ cmdq # <<>>
          /\ Head(cmdq) = Sync(exec'.m)
          /\ cmdq' = Tail(cmdq)
          /\ msgq' = msgq
          /\ tasks' = tasks
    /\ exec.st = "send" =>
          /\ Grown(cmdq, cmdq') \/ (cmdq' = <<>> /\ exec'.st = "panicked")
          /\ Len(tasks') <= Len(tasks)
          /\ exec' # exec =>
                \/ /\ exec' = [st |-> "idle", m |-> <<>>]
                   /\ msgq' = Append(msgq, exec.m)
                \/ /\ exec'.st = "panicked"
                   /\ ~MsgRxAlive
                   /\ msgq' = msgq

C15_OwnThreads ==
    (cmdq # <<>> /\ exec.st \in {"idle", "send"}) => ENABLED ExecRecv

\* C16 (one step): a task is spawned only by the executor taking an Async
\* command, the oldest queued, and one task for it; the executor taking an Async
\* command does nothing else (the queue is also emptied, with no task spawned,
\* when the executor is aborted); a task ends having called execute once, and what
\* execute returned decides what it sent: for Some(Sync) the thunk's message, to
\* the message channel; for Some(Async) that command, to the command channel;
\* for None nothing (a send to a channel whose receiver is gone panics the task).
C16_Step ==
    /\ Len(tasks') > Len(tasks) =>
          /\ exec.st = "idle"
          /\ cmdq # <<>>
          /\ Head(cmdq).k = "Async"
          /\ tasks' = Append(tasks, Task(Head(cmdq), exts))
          /\ cmdq' = Tail(cmdq)
    /\ (cmdq # <<>> /\ cmdq' = Tail(cmdq) /\ Head(cmdq).k = "Async" /\ exec'.st = "idle") =>
          /\ tasks' = Append(tasks, Task(Head(cmdq), exts))
          /\ UNCHANGED <<exec, msgq, log>>
    /\ Len(tasks') < Len(tasks) =>
          /\ UNCHANGED <<exec, log, model>>
          /\ \E i \in 1..Len(tasks) :
                /\ tasks' = Remove(tasks, i)
                /\ IF tasks[i].r = <<>>
                   THEN UNCHANGED <<msgq, cmdq>>
                   ELSE IF tasks[i].r[1].k = "Sync"
                   THEN /\ cmdq' = cmdq
                        /\ IF MsgRxAlive
                           THEN msgq' = Append(msgq, tasks[i].r[1].m)
                           ELSE msgq' = msgq
                   ELSE /\ msgq' = msgq
                        /\ IF CmdRxAlive
                           THEN cmdq' = Append(cmdq, tasks[i].r[1])
                           ELSE cmdq' = cmdq

\* C16: for each Async command it receives the executor spawns one task, which
\* calls Model::execute once: Some(Sync) is run on that task and its message sent
\* to the message channel, Some(Async) is sent to the command channel for the
\* executor to handle, and None sends nothing on either channel.
C16_AsyncTasks == [][C16_Step]_vars

\* command chaining: the task of the command execute returned for an Async
\* command is spawned, while the message of the other Async command's thunk is
\* in the message channel
C16_Witness ==
    /\ \E i \in 1..Len(tasks) : tasks[i] = Task(Async(Increment, <<>>), exts)
    /\ \E j \in 1..Len(msgq) : msgq[j] = QuitMsg

\* C17 (as claimed): at shutdown the executor and every task spawned for an
\* Async command are aborted: once start() has returned the executor waits for
\* no command, no spawned task runs execute to its end, and nothing is delivered
\* to update.
C17_Step ==
    pc = "done" =>
        /\ exec.st # "idle"
        /\ Len(tasks') >= Len(tasks)
        /\ log' = log

C17_TasksAborted == [][C17_Step]_vars

\* start() has returned, the executor is aborted, and the task of an Async
\* command has not run yet
C17_Witness ==
    /\ pc = "done"
    /\ exec.st = "aborted"
    /\ tasks # <<>>

\* the main loop waits to send a command to the full command channel while the
\* executor waits to send a thunk's message to the full message channel
Deadlocked ==
    /\ pc \in {"batch", "send_cmd"}
    /\ CmdRxAlive
    /\ Len(cmdq) = cap
    /\ exec.st = "send"
    /\ MsgRxAlive
    /\ Len(msgq) = cap

\* C18: a channel never holds more than its capacity, a send to a full channel
\* waiting instead; and once the main loop waits to send to the full command
\* channel while the executor waits to send to the full message channel, neither
\* of them ever takes another step: the channels stay full, nothing is received,
\* updated, rendered or restored.
C18_FullChannelsDeadlock ==
    /\ [](Len(msgq) <= cap /\ Len(cmdq) <= cap)
    /\ [][Deadlocked => (Deadlocked' /\ UNCHANGED <<pc, exec, msgq, cmdq, out, log, model>>)]_vars

\* the deadlock: a batch of more commands than the command channel and the
\* executor hold was received while the message channel was filled by the input
\* reader
C18_Witness ==
    /\ Deadlocked
    /\ pc = "batch"
    /\ cap = SmallCap
    /\ \E i \in 1..Len(msgq) : msgq[i] = ResizeEvent(1, 1)

\* the log of a startup that succeeded, up to the first frame: init, called with
\* the terminal size and returning cmd, then the terminal set up (with the
\* alternate screen when requested at construction), then the view of the model
\* formatted and printed
StartupLog(cmd, sz, requested, mdl) ==
    << <<"init", cmd, sz>>,
       TermCall("hide_cursor", <<>>, TRUE),
       TermCall("enable_raw_mode", <<>>, TRUE) >>
    \o (IF requested
        THEN << TermCall("enter_alt_screen", <<>>, TRUE), TermCall("clear_all", <<>>, TRUE) >>
        ELSE <<>>)
    \o << <<"view", format(View(mdl), sz)>>,
          TermCall("print", format(View(mdl), sz), TRUE) >>

\* C19 (one step): init is the first thing the program does and its command, if
\* any, is then the only content of the command channel; when the main loop
\* receives its first message, what happened before is exactly: init called once
\* with the terminal size, cursor hidden and raw mode enabled, the alternate
\* screen entered and cleared iff it was requested at construction, and the
\* initial view printed once after them.
C19_Step ==
    /\ Began("init") =>
          /\ log = <<>>
          /\ cmdq = <<>>
          /\ cmdq' = init_cmd
          /\ log' = << <<"init", init_cmd, size>> >>
    /\ (Began("recv") /\ \A j \in Idx : ~IsEv(j, "recv")) =>
          log = StartupLog(init_cmd, size, used_alt_screen, model)
    /\ (pc = "startup" /\ pc' = "first_print") => used_alt_screen' = alt_screen

\* C19: before the main loop consumes its first message, init was called exactly
\* once with the terminal size and its command was placed exactly once on the
\* command channel, raw mode was enabled and the cursor hidden, the alternate
\* screen was entered and cleared iff requested up front, and the initial view
\* was printed exactly once after that setup.
C19_StartupBeforeMessages == [][C19_Step]_vars

\* the main loop has received its first message, the message of the command
\* init returned, after a startup without the alternate screen
C19_Witness ==
    /\ init_cmd = <<CmdEnterAlt>>
    /\ Len(log) >= 6
    /\ log[6] = <<"recv", EnterAltScreenMsg>>
    /\ log[5][2] = "print"

\* ------------------------------------------------------------------------
\* Extensions
\* ------------------------------------------------------------------------

\* C20 (one call): an Extensions value answers get with at most one value per
\* type; after insert of a T, get::<T>() is the value inserted, whatever T held
\* before, and get of every other type is what it was; get and get_unchecked
\* change nothing; get_unchecked panics exactly when get is None and otherwise
\* returns what get returns.
C20_Step ==
    /\ \A t \in ExtTypes : Len(get(exts', t)) <= 1
    /\ got'.op = "insert" =>
          /\ get(exts', got'.t) = got'.arg
          /\ \A u \in ExtTypes \ {got'.t} : get(exts', u) = get(exts, u)
    /\ got'.op = "get" =>
          /\ exts' = exts
          /\ got'.r = get(exts, got'.t)
          /\ ~got'.panic
    /\ got'.op = "get_unchecked" =>
          /\ exts' = exts
          /\ got'.panic <=> get(exts, got'.t) = <<>>
          /\ got'.r = get(exts, got'.t)

\* C20: Extensions holds at most one value per type: get::<T>() is None until a
\* T is inserted and then the T inserted last, an insert of a T leaves the values
\* of the other types as they are, and get_unchecked::<T>() returns what get
\* returns or panics when there is no T.
C20_OneValuePerType ==
    /\ (\A t \in ExtTypes : get(exts, t) = <<>>)
    /\ [][C20_Step]_vars

\* a u32 was inserted over another u32 while a str is held and no bool is
C20_Witness ==
    /\ got = [op |-> "insert", t |-> "u32", arg |-> <<2>>, r |-> <<>>, panic |-> FALSE]
    /\ get(exts, "u32") = <<2>>
    /\ get(exts, "str") = <<1>>
    /\ get(exts, "bool") = <<>>

\* C21: the Extensions are read-only after construction: every task spawned for
\* an Async command holds, for its call of Model::execute, a snapshot equal to
\* the Extensions the Program was constructed with, and no step of the runtime
\* changes the Extensions of the program or the snapshot of a task.
C21_ExtensionsReadOnly ==
    /\ [](exts = ProgramExts /\ \A i \in 1..Len(tasks) : tasks[i].ext = ProgramExts)
    /\ [][exts' = exts]_vars

\* the tasks of two Async commands are running, one of them for a command that
\* execute returned (a chained command), each with its snapshot
C21_Witness ==
    /\ Len(tasks) = 2
    /\ \E i \in 1..2 : tasks[i].r = <<>>
    /\ \A i \in 1..2 : get(tasks[i].ext, "u32") = <<1>> /\ get(tasks[i].ext, "str") = <<2>>

\* ------------------------------------------------------------------------
\* the formatter
\* ------------------------------------------------------------------------

\* the positions of the line feeds of a text
Breaks(s) == {i \in 1..Len(s) : s[i] = "LF"}

\* the position of the k-th line feed of s (0 before the first line, Len(s) + 1
\* after the last)
NthBreak(s, k) ==
    IF k = 0 THEN 0
    ELSE IF k > Cardinality(Breaks(s)) THEN Len(s) + 1
    ELSE CHOOSE i \in Breaks(s) : Cardinality({j \in Breaks(s) : j <= i}) = k

\* the k-th line of s
ViewLine(s, k) == SubSeq(s, NthBreak(s, k - 1) + 1, NthBreak(s, k) - 1)

\* the visible text of a line: what is left when every escape sequence (the
\* escape character, the grapheme after it and everything through the first
\* terminator) is taken out
RECURSIVE VisibleText(_)
VisibleText(s) ==
    IF s = <<>> THEN <<>>
    ELSE IF Head(s) = "E"
         THEN LET last == IF Len(s) = 1 THEN 1 ELSE ScanTerminator(s, 3)
              IN  VisibleText(SubSeq(s, last + 1, Len(s)))
         ELSE <<Head(s)>> \o VisibleText(Tail(s))

\* the escape sequences of a line, in order, one after the other
RECURSIVE EscapeText(_)
EscapeText(s) ==
    IF s = <<>> THEN <<>>
    ELSE IF Head(s) = "E"
         THEN LET last == IF Len(s) = 1 THEN 1 ELSE ScanTerminator(s, 3)
              IN  SubSeq(s, 1, last) \o EscapeText(SubSeq(s, last + 1, Len(s)))
         ELSE EscapeText(Tail(s))

\* the lines format is to return for a view: the last min(n, h) of its n lines,
\* in their order
KeptLines(s, h) ==
    LET n    == Cardinality(Breaks(s)) + 1
        kept == IF n < h THEN n ELSE h
    IN  [j \in 1..kept |-> ViewLine(s, n - kept + j)]

\* the result of format for a view of lines `kept`: the pieces between "\r\n"
FormattedAs(r, kept) == IF kept = <<>> THEN r = <<>> ELSE FrameLines(r) = kept

\* every escape character of the line opens a terminated sequence "ESC [ ..."
Csi(c) ==
    \A i \in 1..Len(c) :
        c[i] = "E" => /\ i < Len(c)
                      /\ c[i + 1] = "["
                      /\ \E j \in (i + 2)..Len(c) : IsTerminator(c[j])

\* C22 (as claimed): format splits the view on line feeds, keeps the last
\* min(n, height) lines in their order, clamps each to width visible cells,
\* right-pads each to exactly width, and joins them with "\r\n"; with height 0
\* the result is empty.
C22_FormatAsClaimed ==
    fmt.fn = "format" =>
        LET kept == KeptLines(fmt.s, fmt.h)
            ls   == FrameLines(fmt.r)
        IN  /\ fmt.h = 0 => fmt.r = <<>>
            /\ kept # <<>> =>
                  /\ Len(ls) = Len(kept)
                  /\ \A k \in 1..Len(kept) :
                        /\ \E d \in 0..fmt.w : ls[k] = clamp_by(kept[k], fmt.w) \o Spaces(d)
                        /\ VisibleWidth(ls[k]) = fmt.w

\* C22 (what holds of it): format splits the view on line feeds, keeps the last
\* min(n, height) lines in their order, clamps each to width visible cells,
\* right-pads each with spaces up to width as remove_escape_sequences measures
\* the clamped line (which is to exactly width visible cells when every escape
\* character of the line opens a terminated "ESC [" sequence), and joins them
\* with "\r\n"; with height 0 the result is empty.
C22_Format ==
    fmt.fn = "format" =>
        LET kept == KeptLines(fmt.s, fmt.h)
            ls   == FrameLines(fmt.r)
        IN  /\ fmt.h = 0 => fmt.r = <<>>
            /\ kept # <<>> =>
                  /\ Len(ls) = Len(kept)
                  /\ \A k \in 1..Len(kept) :
                        LET c == clamp_by(kept[k], fmt.w)
                            m == StrWidth(remove_escape_sequences(c))
                        IN  /\ ls[k] = c \o Spaces(IF fmt.w > m THEN fmt.w - m ELSE 0)
                            /\ Csi(c) => VisibleWidth(ls[k]) = fmt.w

\* a view of three lines formatted for two rows of two cells: the first line is
\* dropped, the second is clamped, the third is padded
C22_Witness ==
    /\ fmt.fn = "format"
    /\ fmt.s = <<"LF", "W", "a", "LF">>
    /\ fmt.w = 2 /\ fmt.h = 2
    /\ fmt.r = <<"W", "CRLF", "_", "_">>

\* p is a prefix of q
IsPrefix(p, q) == Len(p) <= Len(q) /\ SubSeq(q, 1, Len(p)) = p

\* C23: clamp_by(s, w) keeps the visible graphemes of s up to, and not
\* including, the first one that would make the visible width exceed w, and drops
\* every visible grapheme after it: its visible text is the prefix of the visible
\* text of s that ends there, of width at most w; every escape sequence of s, those
\* after the cut included, is copied unchanged and in order.
C23_ClampBy ==
    fmt.fn = "clamp_by" =>
        LET vs == VisibleText(fmt.s)
            vr == VisibleText(fmt.r)
        IN  /\ IsPrefix(vr, vs)
            /\ StrWidth(vr) <= fmt.w
            /\ Len(vr) < Len(vs) => StrWidth(vr) + GWidth(vs[Len(vr) + 1]) > fmt.w
            /\ EscapeText(fmt.r) = EscapeText(fmt.s)

\* a line cut at its first grapheme, a wide one that does not fit in one cell,
\* with an escape sequence after the cut
C23_Witness ==
    /\ fmt.fn = "clamp_by"
    /\ fmt.s = <<"W", "E", "[", "a">>
    /\ fmt.w = 1
    /\ fmt.r = <<"E", "[", "a">>

\* C24: the width computation agrees with clamping on what an escape sequence
\* is: for every line s, also when the escape character is not followed by '['
\* or the sequence is unterminated, remove_escape_sequences(s) is the visible
\* text of s, and fill_by_space(clamp_by(s, w), w) has visible width exactly w.
C24_WidthAgreesWithClamp ==
    /\ fmt.fn = "remove_escape_sequences" => fmt.r = VisibleText(fmt.s)
    /\ fmt.fn = "fill_by_space" => VisibleWidth(fmt.r) = fmt.w

\* the concatenation of the lines from the k-th on
RECURSIVE ConcatFrom(_, _)
ConcatFrom(lines, k) ==
    IF k > Len(lines) THEN <<>> ELSE lines[k] \o ConcatFrom(lines, k + 1)

\* C29: wrap(s, max_width) loses and reorders nothing: the returned lines
\* concatenated are s; and every returned line has visible width at most
\* max_width, escape sequences not counting.
C29_WrapKeepsAndFits ==
    fmt.fn = "wrap" =>
        /\ ConcatFrom(fmt.r, 1) = fmt.s
        /\ \A k \in 1..Len(fmt.r) : VisibleWidth(fmt.r[k]) <= fmt.w

\* C29 (amended): the lines wrap returns, concatenated, are s; every returned
\* line has visible width at most max_width, unless it holds a single visible
\* grapheme that is itself wider than max_width (a grapheme is never split or
\* dropped, and it is put on a line of its own).
C29_WrapKeeps ==
    fmt.fn = "wrap" =>
        /\ ConcatFrom(fmt.r, 1) = fmt.s
        /\ \A k \in 1..Len(fmt.r) :
              \/ VisibleWidth(fmt.r[k]) <= fmt.w
              \/ /\ Len(VisibleText(fmt.r[k])) = 1
                 /\ GWidth(VisibleText(fmt.r[k])[1]) > fmt.w

\* a narrow and a wide grapheme wrapped to one cell: two lines, the second one
\* two cells wide
C29_Witness ==
    /\ fmt.fn = "wrap"
    /\ fmt.s = <<"1", "W">>
    /\ fmt.w = 1
    /\ fmt.r = << <<"1">>, <<"W">> >>

\* ------------------------------------------------------------------------
\* the widgets
\* ------------------------------------------------------------------------

\* the graphemes of a value, in order
GraphemeSeq(value) ==
    [k \in 1..grapheme_len(value) |->
        SubSeq(value, GraphemeAt(value, k - 1), GraphemeAt(value, k) - 1)]

\* the value without its grapheme of index at (from 0)
WithoutGrapheme(value, at) ==
    LET gs == GraphemeSeq(value)
    IN  ConcatFrom([k \in 1..(Len(gs) - 1) |-> IF k <= at THEN gs[k] ELSE gs[k + 1]], 1)

\* the value with the character c put where its grapheme of index at starts
WithCharAt(value, at, c) ==
    LET gs == GraphemeSeq(value)
    IN  ConcatFrom([k \in 1..(Len(gs) + 1) |->
                       IF k <= at THEN gs[k]
                       ELSE IF k = at + 1 THEN <<c>> ELSE gs[k - 1]], 1)

\* what Left, Right, Backspace and Delete do to the value v and the position p
\* of a focused input, in the words of the reference
MovesAndRemoves(op, v, p, v2, p2) ==
    LET len == grapheme_len(v)
    IN  /\ op.code = "Left" => v2 = v /\ p2 = (IF p = 0 THEN 0 ELSE p - 1)
        /\ op.code = "Right" => v2 = v /\ p2 = (IF p < len THEN p + 1 ELSE len)
        /\ op.code = "Backspace" =>
              IF p > 0 THEN v2 = WithoutGrapheme(v, p - 1) /\ p2 = p - 1
              ELSE v2 = v /\ p2 = p
        /\ op.code = "Delete" =>
              /\ p2 = p
              /\ v2 = (IF p < len THEN WithoutGrapheme(v, p) ELSE v)

\* the key of the step
KeyGiven == ti'.ops[Len(ti'.ops)]

\* C25 (as claimed): after every key the value and the position are those of
\* the reference: Left and Right move by one clamped to [0, length], Backspace
\* removes the grapheme before the cursor and moves back one, Delete removes the
\* grapheme under the cursor, insert places the character at the cursor and
\* advances by one; and the position never exceeds the grapheme length of the
\* value.
C25_KeysAsClaimed ==
    [][ti' # ti =>
          LET v == ti.input.value     p == ti.input.pos
              v2 == ti'.input.value   p2 == ti'.input.pos
          IN  /\ MovesAndRemoves(KeyGiven, v, p, v2, p2)
              /\ KeyGiven.code = "Char" =>
                    v2 = WithCharAt(v, p, KeyGiven.ch) /\ p2 = p + 1
              /\ p2 <= grapheme_len(v2)]_vars

\* C25 (amended): after every sequence of keys the value and the position are
\* those apply_ref gives, and every key does what the reference says, insert
\* placing the character at the cursor and advancing by one clamped to the
\* grapheme length of the new value (a combining character that joins the
\* grapheme before it adds no grapheme); the position never exceeds the grapheme
\* length of the value.
C25_MatchesReference ==
    /\ [](/\ ti.input.value = ti.expected_value
          /\ ti.input.pos = ti.expected_pos
          /\ ti.input.pos <= grapheme_len(ti.input.value))
    /\ [][ti' # ti =>
          LET v == ti.input.value     p == ti.input.pos
              v2 == ti'.input.value   p2 == ti'.input.pos
          IN  /\ MovesAndRemoves(KeyGiven, v, p, v2, p2)
              /\ KeyGiven.code = "Char" =>
                    /\ v2 = WithCharAt(v, p, KeyGiven.ch)
                    /\ p2 = Min(p + 1, grapheme_len(v2))]_vars

\* an input that started as "ab" with the cursor at its end, after Left, a
\* character and Backspace: the value and the cursor are back
C25_Witness ==
    /\ ti.ops = <<[code |-> "Left", ch |-> ""], [code |-> "Char", ch |-> "b"],
                  [code |-> "Backspace", ch |-> ""]>>
    /\ ti.input = [value |-> <<"a", "b">>, pos |-> 1, focus |-> TRUE]
    /\ ti.expected_value = <<"a", "b">>
    /\ ti.expected_pos = 1

\* update gives no command for a TickMsg with these: an id that is set and is
\* not the spinner's, or a tag that is not the spinner's
Rejected(self, msg) == (msg.id > 0 /\ msg.id # self.id) \/ msg.tag # self.tag

\* the messages on their way that the spinner can still take: ticks with its id
\* or none, and its tag or a later one
Alive(s) ==
    {i \in 1..Len(s.pending) :
        /\ s.pending[i].t = "Tick"
        /\ s.pending[i].id \in {0, s.spinner.id}
        /\ s.pending[i].tag >= s.spinner.tag}

NewUpdates == {j \in New : log'[j][1] = "update"}

\* C26: the loop checks a received message for Quit, Batch, Resize and
\* EnterAltScreen, in this order, before the user update: a Quit or a Batch
\* message is never passed to update (and changes neither size nor flag); a
\* Resize message is passed to update with the size already recorded, an
\* EnterAltScreen message with the flag already set and the terminal already
\* switched and cleared (the update is not reached when one of the two calls
\* fails); the frame of the iteration is formatted with that size.
C26_Step ==
    Began("recv") =>
        LET i == Len(log) + 1
            m == log'[i][2]
        IN  /\ m.t \in {"Quit", "Batch"} =>
                  /\ NewUpdates = {}
                  /\ Len(log') = i
                  /\ UNCHANGED <<model, size, alt_screen>>
            /\ m.t = "Quit" => pc' = "cleanup"
            /\ m.t = "Batch" => out' = m.a /\ pc' \in {"recv", "batch"}
            /\ m.t # "Resize" => size' = size
            /\ m.t # "EnterAlt" => alt_screen' = alt_screen
            /\ m.t = "Resize" => size' = m.a /\ log'[i + 1] = <<"update", m>>
            /\ m.t = "EnterAlt" =>
                  /\ alt_screen'
                  /\ log'[i + 1][1] = "term" /\ log'[i + 1][2] = "enter_alt_screen"
                  /\ IF log'[i + 1][4]
                     THEN /\ log'[i + 2][1] = "term" /\ log'[i + 2][2] = "clear_all"
                          /\ IF log'[i + 2][4]
                             THEN log'[i + 3] = <<"update", m>>
                             ELSE NewUpdates = {} /\ Len(log') = i + 2
                     ELSE NewUpdates = {} /\ Len(log') = i + 1
            /\ m.t \notin {"Quit", "Batch", "Resize", "EnterAlt"} =>
                  log'[i + 1] = <<"update", m>>
            /\ \A j \in New :
                  (log'[j][1] = "term" /\ log'[j][2] = "print") =>
                      log'[j][3] = format(View(model'), size')

C26_ReservedBeforeUpdate == [][C26_Step]_vars

\* a run in which a Resize and an EnterAltScreen message were passed to update,
\* the second after the two terminal calls, and a Batch message was not
C26_Witness ==
    /\ \E i \in Idx : /\ IsRecv(i, "Resize") /\ i < Len(log)
                      /\ log[i + 1] = <<"update", log[i][2]>>
                      /\ size = log[i][2].a
    /\ \E i \in Idx : /\ IsRecv(i, "EnterAlt") /\ i + 3 <= Len(log)
                      /\ IsTerm(i + 1, "enter_alt_screen")
                      /\ IsTerm(i + 2, "clear_all")
                      /\ log[i + 3] = <<"update", log[i][2]>>
    /\ \E i \in Idx : /\ IsRecv(i, "Batch")
                      /\ i < Len(log) => log[i + 1][1] # "update"

\* the number of line separators of a frame
Separators(frame) == Cardinality({k \in 1..Len(frame) : frame[k] = "CRLF"})

\* C27: in the loop a changed frame is printed only after the previously
\* printed frame was erased: in alternate-screen mode by one clear_all; in
\* inline mode by move_to_column(0), one clear_current_line and then
\* clear_current_line_and_move_previous once per line separator of the previous
\* frame, which is one cleared row per line of that frame.
C27_Step ==
    \A p \in New :
        (log'[p][1] = "term" /\ log'[p][2] = "print" /\ pc # "first_print") =>
            LET n == Separators(prev_view)
                v == IF alt_screen' THEN p - 2 ELSE p - 3 - n
            IN  /\ prev_view = LastPrinted(Len(log) + 1)
                /\ log'[p][3] # prev_view
                /\ v \in New
                /\ log'[v] = <<"view", log'[p][3]>>
                /\ IF alt_screen'
                   THEN log'[v + 1] = TermCall("clear_all", <<>>, TRUE)
                   ELSE /\ log'[v + 1] = TermCall("move_to_column", 0, TRUE)
                        /\ log'[v + 2] = TermCall("clear_current_line", <<>>, TRUE)
                        /\ \A k \in 1..n :
                              log'[v + 2 + k] =
                                  TermCall("clear_current_line_and_move_previous", <<>>, TRUE)
                        /\ n + 1 = Len(FrameLines(prev_view))

C27_EraseBeforePrint == [][C27_Step]_vars

\* an inline program that printed a frame of two lines and then a changed frame:
\* two rows were cleared before the second print
C27_Witness ==
    \E p \in Idx :
        /\ p > 4
        /\ IsTerm(p, "print")
        /\ IsTerm(p - 1, "clear_current_line_and_move_previous")
        /\ IsTerm(p - 2, "clear_current_line")
        /\ IsTerm(p - 3, "move_to_column")
        /\ IsEv(p - 4, "view")
        /\ Len(FrameLines(LastPrinted(p))) = 2
        /\ ~alt_screen

\* ------------------------------------------------------------------------
\* asynchronous commands
\* ------------------------------------------------------------------------

\* update was called for the message that shows view a before it was called
\* for the one that shows view b
UpdatedBefore(a, b) ==
    \E i, j \in Idx :
        /\ i < j
        /\ IsEv(i, "update") /\ log[i][2].t = "User" /\ log[i][2].a[1] = a
        /\ IsEv(j, "update") /\ log[j][2].t = "User" /\ log[j][2].a[1] = b

\* C28: the executor does not wait for an asynchronous command: it spawns a
\* task and is ready for the next command at once, so that, however many
\* tasks are pending, it receives the next command queued; any pending task
\* can be the next to finish, and the message of a finished task goes to the
\* end of the message channel, from whose head the main loop takes the
\* message it passes to update (what is queued when the loop is left is
\* dropped): messages of concurrent commands reach update in the order they
\* arrived on the channel, whichever that is.
C28_AsyncNotAwaited ==
    /\ []((exec.st = "idle" /\ cmdq # <<>>) => ENABLED ExecRecv)
    /\ [](\A i \in 1..Len(tasks) : ENABLED (TaskRun /\ tasks' = Remove(tasks, i)))
    /\ [][/\ Len(tasks') > Len(tasks) =>
                /\ exec.st = "idle" /\ exec' = exec
                /\ cmdq' = Tail(cmdq)
                /\ UNCHANGED <<msgq, log>>
          /\ (Len(tasks') < Len(tasks) /\ msgq' # msgq) =>
                \E i \in 1..Len(tasks) :
                    /\ tasks' = Remove(tasks, i)
                    /\ msgq' = Append(msgq, tasks[i].r[1].m)
          /\ Began("recv") =>
                /\ log'[Len(log) + 1][2] = Head(msgq)
                /\ msgq' = (IF pc' = "cleanup" THEN <<>> ELSE Tail(msgq))]_vars

\* both asynchronous commands were pending at once, and the message of the
\* second reached update before the message of the first
C28_Witness ==
    /\ UpdatedBefore(5, 4)
    /\ init_cmd = AsyncScenarios[1].init

\* ------------------------------------------------------------------------
\* next_id
\* ------------------------------------------------------------------------

\* C31: next_id yields unique ids: every call returns a value different from
\* every earlier call, also when several threads call it concurrently.
C31_UniqueIds ==
    \A i, j \in 1..Len(ids.ret) : ids.ret[i] = ids.ret[j] => i = j

\* ------------------------------------------------------------------------
\* chagashi/src/viewport.rs: a Viewport around a child whose view is fixed
\* ------------------------------------------------------------------------

\* most lines of the child's view, and the largest height of the viewport
MaxLines == 5
MaxHeight == 3

Max(a, b) == IF a > b THEN a ELSE b

\* a.saturating_sub(b)
SaturatingSub(a, b) == IF a > b THEN a - b ELSE 0

\* lines(): one line per line of the child's view (wrap is off); a line is
\* named by its number in the child's view
lines(self) == [i \in 1..self.child |-> i]

content_len(self) == Len(lines(self)) % U16

max_y_offset(self) == Max(0, SaturatingSub(content_len(self), self.height))

at_bottom(self) == self.offset_y >= max_y_offset(self)

\* Viewport::new(child, size, opt): a child of n lines, the height, opt.selection
NewViewport(n, h, sel) ==
    [child |-> n, height |-> h, offset_y |-> 0, selection |-> sel, selection_y |-> 0]

move_to_top(self) == [self EXCEPT !.offset_y = 0]

move_up(self) ==
    IF self.selection
    THEN IF self.selection_y <= self.offset_y
         THEN [self EXCEPT
                 !.offset_y = Min(SaturatingSub(self.offset_y, self.height \div 2),
                                  max_y_offset(self)),
                 !.selection_y = SaturatingSub(self.selection_y, 1)]
         ELSE [self EXCEPT !.selection_y = SaturatingSub(self.selection_y, 1)]
    ELSE [self EXCEPT !.offset_y = SaturatingSub(self.offset_y, 1)]

move_down(self) ==
    IF self.selection
    THEN IF self.selection_y >= SaturatingSub(self.offset_y + self.height, 1)
         THEN [self EXCEPT
                 !.offset_y = Min(self.offset_y + self.height \div 2, max_y_offset(self)),
                 !.selection_y = Min(self.selection_y + 1,
                                     SaturatingSub(content_len(self), 1))]
         ELSE [self EXCEPT
                 !.selection_y = Min(self.selection_y + 1,
                                     SaturatingSub(content_len(self), 1))]
    ELSE IF at_bottom(self)
         THEN self
         ELSE [self EXCEPT !.offset_y = self.offset_y + 1]

page_up(self) ==
    LET y == SaturatingSub(self.offset_y, self.height)
    IN  [self EXCEPT !.offset_y = y, !.selection_y = y]

page_down(self) ==
    IF self.offset_y + self.height >= SaturatingSub(content_len(self), 1)
    THEN self
    ELSE LET y == Min(self.offset_y + self.height, SaturatingSub(content_len(self), 1))
         IN  [self EXCEPT !.offset_y = y, !.selection_y = y]

move_to_bottom(self) == [self EXCEPT !.offset_y = max_y_offset(self)]

\* visible_lines(): the lines from offset_y on, 0 standing for an added empty
\* line; content_len() - offset_y is a u16 subtraction
visible_lines(self) ==
    LET top == Max(0, self.offset_y)
        over == (content_len(self) - self.offset_y) % U16 > self.height
        bottom == IF over THEN self.offset_y + self.height ELSE content_len(self)
        shown == SubSeq(lines(self), top + 1, bottom)
    IN  IF over
        THEN shown
        ELSE shown \o [i \in 1..SaturatingSub(self.height, content_len(self)) |-> 0]

\* the methods that move the viewport
Moves == {"move_up", "move_down", "page_up", "page_down", "move_to_top", "move_to_bottom"}

Moved(self, m) ==
    CASE m = "move_up" -> move_up(self)
      [] m = "move_down" -> move_down(self)
      [] m = "page_up" -> page_up(self)
      [] m = "page_down" -> page_down(self)
      [] m = "move_to_top" -> move_to_top(self)
      [] m = "move_to_bottom" -> move_to_bottom(self)

VpInit ==
    /\ \E n \in 1..MaxLines, h \in 1..MaxHeight, sel \in BOOLEAN :
          vp = [v |-> NewViewport(n, h, sel), last |-> "new"]
    /\ ids = NoIds /\ lst = NoList /\ ta = NoTextArea
    /\ ti = NoTextInput /\ sp = NoSpinner
    /\ NoProgram

\* one call of a method that moves the viewport
VpMove(m) ==
    /\ vp' = [v |-> Moved(vp.v, m), last |-> m]
    /\ UNCHANGED <<progvars, setup, extvars, fmtvars, widgetvars, ids, lst, ta>>

VpSpec == VpInit /\ [][\E m \in Moves : VpMove(m)]_vars

\* C32: the view of a viewport has exactly `height` lines at every offset the
\* moving methods reach, empty lines filling what the content leaves.
C32_ViewKeepsHeight == Len(visible_lines(vp.v)) = vp.v.height

\* ------------------------------------------------------------------------
\* the frame on the terminal while the loop waits
\* ------------------------------------------------------------------------

\* the terminal calls in the log
TermCalls == {i \in 1..Len(log) : log[i][1] = "term"}

\* the last terminal call in the log
LastTermCall == CHOOSE i \in TermCalls : \A j \in TermCalls : j <= i

\* the frames format() has produced
Frames == {i \in 1..Len(log) : log[i][1] = "view"}

LastFrame == CHOOSE i \in Frames : \A j \in Frames : j <= i

\* C33: while the main loop waits for the next message the terminal shows the
\* most recently formatted frame: the last terminal call is the print of that
\* frame, so no clear_all (of an EnterAltScreen in particular) is left without
\* a print after it.
C33_FrameShownWhileWaiting ==
    (pc = "recv" /\ Frames # {})
        => /\ TermCalls # {}
           /\ log[LastTermCall][2] = "print"
           /\ log[LastTermCall][3] = log[LastFrame][2]

\* ------------------------------------------------------------------------
\* panics of the runtime's tasks
\* ------------------------------------------------------------------------

\* C34: shutdown makes no runtime task panic: the task of an asynchronous
\* command that finishes after the message receiver was dropped does not reach
\* the "Failed to send message" panic, and the executor does not panic on a
\* send while the program is running.
C34_NoTaskPanics ==
    /\ task_panics = 0
    /\ (MsgRxAlive => exec.st # "panicked")

\* ------------------------------------------------------------------------
\* programs whose commands all terminate, on channels that never fill
\* ------------------------------------------------------------------------

\* a program that never quits: init returns a batch of an asynchronous command,
\* for which execute returns the command of the message showing view 4, and of
\* a command whose message makes update return an asynchronous command, for
\* which execute returns another one, for which it returns the command of the
\* message showing view 3; and a program whose batch holds quit
LiveScenarios ==
    << [alt |-> FALSE,
        init |-> <<batch(<<Async(Increment, <<Sync(UserMsg(4, <<>>))>>),
                           Sync(UserMsg(5, <<Async(Increment,
                                <<Async(Increment, <<Sync(UserMsg(3, <<>>))>>)>>)>>))>>)>>,
        model |-> 1, msgs |-> <<>>, cap |-> ChanCap],
       [alt |-> FALSE,
        init |-> <<batch(<<Async(Increment, <<Sync(UserMsg(4, <<>>))>>), CmdQuit>>)>>,
        model |-> 1, msgs |-> <<>>, cap |-> ChanCap] >>

LiveInit ==
    /\ pc = "init"
    /\ size = InitSizes[1]
    /\ \E i \in 1..Len(LiveScenarios) :
          /\ alt_screen = LiveScenarios[i].alt
          /\ init_cmd = LiveScenarios[i].init
          /\ model = LiveScenarios[i].model
          /\ input_rx = [some |-> TRUE, msgs |-> LiveScenarios[i].msgs]
          /\ cap = LiveScenarios[i].cap
    /\ faulty = FALSE
    /\ used_alt_screen = FALSE
    /\ prev_view = <<>>
    /\ out = <<>>
    /\ run_result = Ok
    /\ result = <<>>
    /\ msgq = <<>>
    /\ cmdq = <<>>
    /\ exec = [st |-> "unborn", m |-> <<>>]
    /\ tasks = <<>>
    /\ task_panics = 0
    /\ input = [st |-> "unborn", n |-> 0]
    /\ log = <<>>
    /\ exts = ProgramExts
    /\ got = NothingAsked
    /\ fmt = NotFormatted
    /\ ti = NoTextInput
    /\ sp = NoSpinner
    /\ NoMore

\* the runtime runs every task that can run
LiveSpec ==
    /\ LiveInit
    /\ [][Next]_vars
    /\ WF_vars(Main)
    /\ WF_vars(Executor)
    /\ WF_vars(TaskRun)
    /\ WF_vars(InputSend)

\* the commands the main loop has handed to the command channel: the one init
\* returned, those update returned and the members of the batches it processed
Issued ==
    {log[i][2][k] : i \in {j \in Idx : IsEv(j, "init")}, k \in 1..Len(init_cmd)}
        \cup {log[i][2] : i \in {j \in Idx : IsEv(j, "send")}}

\* what executing a command comes to: the message of its thunk or, for an
\* asynchronous command, what executing the command execute returned comes to
RECURSIVE Outcome(_)
Outcome(c) ==
    IF c.k = "Sync" THEN <<c.m>>
    ELSE IF c.r = <<>> THEN <<>> ELSE Outcome(c.r[1])

\* the command was executed and its message was passed to update or, a batch,
\* was received and had every member handed to the command channel
Served(c) ==
    \/ Outcome(c) = <<>> /\ \A i \in 1..Len(cmdq) : cmdq[i] # c
    \/ /\ Outcome(c) # <<>>
       /\ LET m == Outcome(c)[1]
          IN  IF m.t = "Batch"
              THEN /\ \E i \in Idx : log[i] = <<"recv", m>>
                   /\ \A k \in 1..Len(m.a) : \E i \in Idx : log[i] = <<"send", m.a[k]>>
              ELSE \E i \in Idx : log[i] = <<"update", m>>

AllServed == (\E i \in Idx : IsEv(i, "init")) /\ \A c \in Issued : Served(c)

\* C35: under fair scheduling, with channels that never reach their capacity
\* and commands that all terminate, every command init or update returned and
\* every member of a processed batch is eventually executed and its message is
\* eventually passed to update, unless a Quit message is processed first.
C35_CommandsServed ==
    /\ [](Len(msgq) < cap /\ Len(cmdq) < cap /\ exec.st # "panicked")
    /\ (~AllServed) ~> (AllServed \/ QuitReceived)

\* every command of the program that never quits was served, the last of them
\* three executions away from the message that returned it
C35_Witness ==
    /\ ~QuitReceived
    /\ AllServed
    /\ Cardinality(Issued) = 4
    /\ \E i \in Idx : log[i] = <<"update", UserMsg(3, <<>>)>>

\* ------------------------------------------------------------------------
\* a Spinner of any type whose type and color are set while it spins
\* ------------------------------------------------------------------------

Colors == {"Red", "Blue"}

\* Spinner::new(spinner_type) and the messages on their way to it
TypedInit ==
    /\ \E t \in SpinnerTypes : \E n \in 1..2 : \E p \in [1..n -> StartMsgs] :
          sp = [spinner |-> SpinnerNew(t), pending |-> p, last |-> <<>>, cmd |-> <<>>,
                taken |-> <<>>]
    /\ ti = NoTextInput
    /\ NoMore
    /\ NoProgram

\* spinner = spinner.set_spinner_type(t)
SpSetType ==
    /\ \E t \in SpinnerTypes : sp' = [sp EXCEPT !.spinner = set_spinner_type(@, t)]
    /\ UNCHANGED <<progvars, setup, extvars, fmtvars, ti, morevars>>

\* spinner = spinner.set_color(c)
SpSetColor ==
    /\ \E c \in Colors : sp' = [sp EXCEPT !.spinner = set_color(@, c)]
    /\ UNCHANGED <<progvars, setup, extvars, fmtvars, ti, morevars>>

TypedSpec == TypedInit /\ [][SpTick \/ SpOther \/ SpSetType \/ SpSetColor]_vars

\* C36: whatever new, set_spinner_type, set_color and update (with accepted and
\* rejected ticks) have done, the frame index is smaller than the number of
\* frames of the spinner's type: view does not reach "frame out of range".
C36_FrameInRange == sp.spinner.frame < SpinnerTypeLen(sp.spinner.spinner_type)

\* ------------------------------------------------------------------------
\* chagashi/src/list.rs: a list of items under the default delegate
\* ------------------------------------------------------------------------

\* most items of a list, and the largest height it is given
MaxItems == 3
MaxListHeight == 5

\* Model::default(): items is the number of items; the list's spinner is a
\* new line spinner
DefaultList ==
    [show_title |-> TRUE, show_status_bar |-> TRUE, show_pagination |-> TRUE,
     show_help |-> TRUE, height |-> 24, cursor |-> 0, per_page |-> 10, page |-> 0,
     total_pages |-> 1, items |-> 0, spinner |-> NewSpinner, show_spinner |-> FALSE,
     infinite_scrolling |-> FALSE]

\* a.div_ceil(b)
DivCeil(a, b) == (a + b - 1) \div b

\* items_on_page(); the subtraction is one of usize
items_on_page(self) ==
    IF self.items = 0 THEN 0
    ELSE Min(self.items - self.page * self.per_page, self.per_page)

\* (a pagination that leaves the cursor where it is)
update_pagination_keeps_cursor(self) ==
    LET available_height ==
            SaturatingSub(SaturatingSub(SaturatingSub(SaturatingSub(self.height,
                IF self.show_title THEN 1 ELSE 0),
                IF self.show_status_bar THEN 1 ELSE 0),
                IF self.show_pagination THEN 1 ELSE 0),
                IF self.show_help THEN 1 ELSE 0)
        item_height == 1 + 0
        per_page == IF item_height > 0 THEN Max(1, available_height \div item_height)
                    ELSE 1
        total_pages == IF self.items = 0 THEN 1 ELSE DivCeil(self.items, per_page)
    IN  [self EXCEPT !.per_page = per_page, !.total_pages = total_pages,
                     !.page = Min(self.page, SaturatingSub(total_pages, 1))]

\* update_pagination(): item_height is the default delegate's height() + spacing()
update_pagination(self) ==
    LET available_height ==
            SaturatingSub(SaturatingSub(SaturatingSub(SaturatingSub(self.height,
                IF self.show_title THEN 1 ELSE 0),
                IF self.show_status_bar THEN 1 ELSE 0),
                IF self.show_pagination THEN 1 ELSE 0),
                IF self.show_help THEN 1 ELSE 0)
        item_height == 1 + 0
        per_page == IF item_height > 0 THEN Max(1, available_height \div item_height)
                    ELSE 1
        total_pages == IF self.items = 0 THEN 1 ELSE DivCeil(self.items, per_page)
        paged == [self EXCEPT !.per_page = per_page, !.total_pages = total_pages,
                              !.page = Min(self.page, SaturatingSub(total_pages, 1))]
    IN  IF paged.cursor >= items_on_page(paged) /\ items_on_page(paged) > 0
        THEN [paged EXCEPT !.cursor = items_on_page(paged) - 1]
        ELSE paged

\* with_items(items) and set_items(items)
set_items(self, items) == update_pagination([self EXCEPT !.items = items])

set_size(self, height) == update_pagination([self EXCEPT !.height = height])

\* set_show_title, set_show_status_bar, set_show_pagination, set_show_help
set_show(self, part, show) ==
    update_pagination(
        CASE part = "title" -> [self EXCEPT !.show_title = show]
          [] part = "status_bar" -> [self EXCEPT !.show_status_bar = show]
          [] part = "pagination" -> [self EXCEPT !.show_pagination = show]
          [] part = "help" -> [self EXCEPT !.show_help = show])

with_infinite_scrolling(self, enabled) == [self EXCEPT !.infinite_scrolling = enabled]

index(self) == self.page * self.per_page + self.cursor

\* selected_item(): None, or the index of the item
selected_item(self) == IF index(self) >= self.items THEN <<>> ELSE <<index(self)>>

\* the last page and its last item
LastItem(self) ==
    LET last == [self EXCEPT !.page = self.total_pages - 1]
    IN  [last EXCEPT !.cursor = IF items_on_page(last) > 0 THEN items_on_page(last) - 1
                                ELSE 0]

cursor_up(self) ==
    IF self.cursor > 0 THEN [self EXCEPT !.cursor = self.cursor - 1]
    ELSE IF self.page > 0
    THEN [self EXCEPT !.page = self.page - 1, !.cursor = self.per_page - 1]
    ELSE IF self.infinite_scrolling THEN LastItem(self)
    ELSE self

cursor_down(self) ==
    IF self.cursor + 1 < items_on_page(self) THEN [self EXCEPT !.cursor = self.cursor + 1]
    ELSE IF self.page + 1 < self.total_pages
    THEN [self EXCEPT !.page = self.page + 1, !.cursor = 0]
    ELSE IF self.infinite_scrolling THEN [self EXCEPT !.page = 0, !.cursor = 0]
    ELSE self

\* the cursor kept on the page: "Make sure cursor is within bounds"
CursorOnPage(self) ==
    IF self.cursor >= items_on_page(self) /\ items_on_page(self) > 0
    THEN [self EXCEPT !.cursor = items_on_page(self) - 1]
    ELSE self

prev_page(self) ==
    IF self.page > 0 THEN CursorOnPage([self EXCEPT !.page = self.page - 1]) ELSE self

next_page(self) ==
    IF self.page + 1 < self.total_pages
    THEN CursorOnPage([self EXCEPT !.page = self.page + 1])
    ELSE self

go_to_start(self) == [self EXCEPT !.page = 0, !.cursor = 0]

go_to_end(self) == LastItem(self)

\* the methods that move the cursor, as handle_key_event calls them
ListKeys == {"Up", "Down", "PageUp", "PageDown", "Home", "End"}

handle_key_event(self, key) ==
    CASE key = "Up" -> cursor_up(self)
      [] key = "Down" -> cursor_down(self)
      [] key = "PageUp" -> prev_page(self)
      [] key = "PageDown" -> next_page(self)
      [] key = "Home" -> go_to_start(self)
      [] key = "End" -> go_to_end(self)

\* start_spinner(): the list and the message of the command it returns
start_spinner(self) ==
    LET tag == self.spinner.id + 1
    IN  <<[self EXCEPT !.show_spinner = TRUE], <<tick(self.spinner, tag)>>>>

\* <Model as matcha::Model>::update: the list and the command returned
ListUpdate(self, msg) ==
    IF msg.t = "KeyEvent" THEN <<handle_key_event(self, msg.code), <<>>>>
    ELSE IF msg.t = "Tick"
    THEN LET r == SpinnerUpdate(self.spinner, msg)
         IN  <<[self EXCEPT !.spinner = r[1]], r[2]>>
    ELSE <<self, <<>>>>

\* Model::new(), with or without infinite scrolling
ListInit ==
    /\ \E enabled \in BOOLEAN :
          lst = [l |-> with_infinite_scrolling(DefaultList, enabled), op |-> "new",
                 cmd |-> <<>>]
    /\ ids = NoIds /\ vp = NoViewport /\ ta = NoTextArea
    /\ ti = NoTextInput /\ sp = NoSpinner
    /\ NoProgram

\* the list after a method, the method, and the message of the command that is
\* on its way to the list
Did(l, op) == lst' = [l |-> l, op |-> op, cmd |-> lst.cmd]

ListSetItems ==
    /\ \E n \in 0..MaxItems : Did(set_items(lst.l, n), "set_items")
    /\ UNCHANGED <<progvars, setup, extvars, fmtvars, widgetvars, ids, vp, ta>>

ListSetSize ==
    /\ \E h \in 0..MaxListHeight : Did(set_size(lst.l, h), "set_size")
    /\ UNCHANGED <<progvars, setup, extvars, fmtvars, widgetvars, ids, vp, ta>>

ListSetShow ==
    /\ \E part \in {"title", "status_bar", "pagination", "help"}, show \in BOOLEAN :
          Did(set_show(lst.l, part, show), "set_show")
    /\ UNCHANGED <<progvars, setup, extvars, fmtvars, widgetvars, ids, vp, ta>>

ListKey ==
    /\ \E key \in ListKeys :
          Did(ListUpdate(lst.l, [t |-> "KeyEvent", code |-> key])[1], key)
    /\ UNCHANGED <<progvars, setup, extvars, fmtvars, widgetvars, ids, vp, ta>>

ListStartSpinner ==
    /\ ~lst.l.show_spinner
    /\ lst' = [l |-> start_spinner(lst.l)[1], op |-> "start_spinner",
               cmd |-> start_spinner(lst.l)[2]]
    /\ UNCHANGED <<progvars, setup, extvars, fmtvars, widgetvars, ids, vp, ta>>

\* the message of the spinner's command is given to the list's update
ListTick ==
    /\ lst.cmd # <<>>
    /\ lst.l.spinner.tag < MaxTag
    /\ lst' = [l |-> ListUpdate(lst.l, lst.cmd[1])[1], op |-> "tick",
               cmd |-> ListUpdate(lst.l, lst.cmd[1])[2]]
    /\ UNCHANGED <<progvars, setup, extvars, fmtvars, widgetvars, ids, vp, ta>>

ListSpec ==
    ListInit /\ [][ListSetItems \/ ListSetSize \/ ListSetShow \/ ListKey
                    \/ ListStartSpinner \/ ListTick]_vars

\* the list is on its last item, on its first item
OnLastItem(l) == l.items > 0 /\ index(l) = l.items - 1
OnFirstItem(l) == l.items > 0 /\ index(l) = 0

\* C37: after any sequence of with_items, set_items, set_size, set_show_*,
\* cursor_up, cursor_down, prev_page, next_page, go_to_start and go_to_end,
\* per_page is at least 1 and page is smaller than total_pages; on a list that
\* is not empty the cursor is smaller than the number of items on the page, so
\* index() is smaller than the number of items and selected_item() is Some.
\* With infinite scrolling off, cursor_down on the last item and cursor_up on
\* the first item leave page and cursor unchanged.
C37_CursorOnAnItem ==
    /\ [](/\ lst.l.per_page >= 1
          /\ lst.l.page < lst.l.total_pages
          /\ lst.l.items > 0 =>
                /\ lst.l.page * lst.l.per_page < lst.l.items
                /\ lst.l.cursor < items_on_page(lst.l)
                /\ index(lst.l) < lst.l.items
                /\ selected_item(lst.l) # <<>>)
    /\ [][(/\ ~lst.l.infinite_scrolling
           /\ \/ lst'.op = "Down" /\ OnLastItem(lst.l)
              \/ lst'.op = "Up" /\ OnFirstItem(lst.l))
            => (lst'.l.page = lst.l.page /\ lst'.l.cursor = lst.l.cursor)]_vars

\* cursor_down has just been called on the last item, on the second page, of a
\* list without infinite scrolling that had its items replaced and its size set
C37_Witness ==
    /\ lst.op = "Down"
    /\ ~lst.l.infinite_scrolling
    /\ OnLastItem(lst.l)
    /\ lst.l.page = 1
    /\ lst.l.cursor = 0
    /\ lst.l.per_page = 2
    /\ lst.l.items = 3

\* C38: the message of the command start_spinner() returns is accepted by the
\* list's own spinner: given to the list's update it advances the spinner by one
\* frame and update returns the next tick.
C38_StartTickAccepted ==
    [][(lst.op = "start_spinner" /\ lst'.op = "tick")
        => /\ lst'.l.spinner.frame = (lst.l.spinner.frame + 1) % LineFrames
           /\ lst'.cmd # <<>>]_vars

\* ------------------------------------------------------------------------
\* chagashi/src/textarea: the document and the cursor position of a textarea
\* ------------------------------------------------------------------------

\* how many keys a textarea is given at most
MaxKeys == 3

\* the rows a textarea starts with: none (Inner::new()), or those of
\* with_content; a row is the sequence of its graphemes, each a single char, so
\* that Row::len is its length
InitialRows == {<<>>, <<<<"a">>>>, <<<<"a", "b">>, <<>>>>}

\* Document::row(index): Some(row) or None
DocRow(rows, n) == IF n < Len(rows) THEN <<rows[n + 1]>> ELSE <<>>

\* set_cursor_char: rows.get(y).expect("rows should not be empty") panics when
\* there is no row y
CursorCharPanics(at, rows) == DocRow(rows, at.y) = <<>>

\* Row::insert(at, c)
RowInsert(row, at, c) ==
    IF at >= Len(row) THEN Append(row, c)
    ELSE SubSeq(row, 1, at) \o <<c>> \o SubSeq(row, at + 1, Len(row))

\* Row::delete(at)
RowDelete(row, at) ==
    IF at >= Len(row) THEN row
    ELSE SubSeq(row, 1, at) \o SubSeq(row, at + 2, Len(row))

\* Document::insert(at, c)
DocumentInsert(rows, at, c) ==
    IF at.y > Len(rows) THEN rows
    ELSE IF at.y = Len(rows) THEN rows
    ELSE [rows EXCEPT ![at.y + 1] = RowInsert(@, at.x, c)]

\* Document::insert_newline(at), with Row::split
DocumentInsertNewline(rows, at) ==
    IF at.y > Len(rows) THEN rows
    ELSE IF at.y = Len(rows) THEN Append(rows, <<>>)
    ELSE LET row == rows[at.y + 1]
             cut == Min(at.x, Len(row))
         IN  SubSeq(rows, 1, at.y)
                 \o <<SubSeq(row, 1, cut), SubSeq(row, cut + 1, Len(row))>>
                 \o SubSeq(rows, at.y + 2, Len(rows))

\* Document::delete(at), with Row::append
DocumentDelete(rows, at) ==
    IF at.y >= Len(rows) THEN rows
    ELSE IF at.x = Len(rows[at.y + 1]) /\ at.y + 1 < Len(rows)
    THEN SubSeq(rows, 1, at.y) \o <<rows[at.y + 1] \o rows[at.y + 2]>>
             \o SubSeq(rows, at.y + 3, Len(rows))
    ELSE [rows EXCEPT ![at.y + 1] = RowDelete(@, at.x)]

Position(x, y) == [x |-> x, y |-> y]

\* Inner::new(), or Inner::with_content of these rows
NewTextarea(rows) ==
    [document |-> rows, cursor_position |-> Position(0, 0), panic |-> FALSE]

\* the textarea with its cursor at `at`, after set_cursor_char for that position
CursorAt(self, rows, at) ==
    [document |-> rows, cursor_position |-> at, panic |-> CursorCharPanics(at, rows)]

TextareaMoveRight(self) ==
    LET x == self.cursor_position.x
        y == self.cursor_position.y
        height == Len(self.document)
        width == IF DocRow(self.document, y) # <<>> THEN Len(DocRow(self.document, y)[1])
                 ELSE 0
        at == IF x < width THEN Position(x + 1, y)
              ELSE IF y < height /\ DocRow(self.document, y + 1) # <<>>
              THEN Position(0, y + 1)
              ELSE Position(x, y)
    IN  CursorAt(self, self.document, at)

TextareaMoveLeft(self) ==
    LET x == self.cursor_position.x
        y == self.cursor_position.y
        at == IF x > 0 THEN Position(SaturatingSub(x, 1), y)
              ELSE IF y > 0
              THEN (IF DocRow(self.document, SaturatingSub(y, 1)) # <<>>
                    THEN Position(Len(DocRow(self.document, SaturatingSub(y, 1))[1]),
                                  SaturatingSub(y, 1))
                    ELSE Position(0, SaturatingSub(y, 1)))
              ELSE Position(x, y)
    IN  CursorAt(self, self.document, at)

TextareaMoveUp(self) ==
    LET y == SaturatingSub(self.cursor_position.y, 1)
        x == IF DocRow(self.document, y) # <<>>
             THEN Min(self.cursor_position.x, Len(DocRow(self.document, y)[1]))
             ELSE self.cursor_position.x
    IN  CursorAt(self, self.document, Position(x, y))

TextareaMoveDown(self) ==
    LET x == self.cursor_position.x
        y == self.cursor_position.y
        next == DocRow(self.document, y + 1)
        at == IF next # <<>> /\ y < Len(self.document)
              THEN Position(Min(x, Len(next[1])), y + 1)
              ELSE Position(x, y)
    IN  CursorAt(self, self.document, at)

\* Inner::insert(c): set_cursor_char for the position before the insertion,
\* then the position moves right
TextareaInsert(self, c) ==
    LET document == DocumentInsert(self.document, self.cursor_position, c)
    IN  [document |-> document,
         cursor_position |-> Position(self.cursor_position.x + 1, self.cursor_position.y),
         panic |-> CursorCharPanics(self.cursor_position, document)]

TextareaInsertNewline(self) ==
    [document |-> DocumentInsertNewline(self.document, self.cursor_position),
     cursor_position |-> Position(0, self.cursor_position.y + 1),
     panic |-> FALSE]

TextareaDeleteBack(self) ==
    IF self.cursor_position.x > 0 \/ self.cursor_position.y > 0
    THEN LET new_self == TextareaMoveLeft(self)
             document == DocumentDelete(new_self.document, new_self.cursor_position)
         IN  IF new_self.panic THEN new_self
             ELSE CursorAt(new_self, document, new_self.cursor_position)
    ELSE self

TextareaDeleteForward(self) ==
    CursorAt(self, DocumentDelete(self.document, self.cursor_position),
             self.cursor_position)

\* the keys of TextareaKeys and a key that carries a char
TextareaKeys ==
    {"MoveLeft", "MoveRight", "MoveUp", "MoveDown", "InsertNewline", "DeleteBack",
     "DeleteForward", "Char"}

\* <Inner as Model>::update for a key: the match on the key binding
TextareaUpdate(self, key, c) ==
    CASE key = "MoveLeft" -> TextareaMoveLeft(self)
      [] key = "MoveRight" -> TextareaMoveRight(self)
      [] key = "MoveUp" -> TextareaMoveUp(self)
      [] key = "MoveDown" -> TextareaMoveDown(self)
      [] key = "InsertNewline" -> TextareaInsertNewline(self)
      [] key = "DeleteBack" -> TextareaDeleteBack(self)
      [] key = "DeleteForward" -> TextareaDeleteForward(self)
      [] key = "Char" -> TextareaInsert(self, c)

TaInit ==
    /\ \E rows \in InitialRows : ta = [t |-> NewTextarea(rows), keys |-> <<>>]
    /\ ids = NoIds /\ vp = NoViewport /\ lst = NoList
    /\ ti = NoTextInput /\ sp = NoSpinner
    /\ NoProgram

\* one key given to update; a panic ends the use of the textarea
TaKey ==
    /\ Len(ta.keys) < MaxKeys
    /\ ~ta.t.panic
    /\ \E key \in TextareaKeys, c \in BaseChars :
          ta' = [t |-> TextareaUpdate(ta.t, key, c), keys |-> Append(ta.keys, key)]
    /\ UNCHANGED <<progvars, setup, extvars, fmtvars, widgetvars, ids, vp, lst>>

TaSpec == TaInit /\ [][TaKey]_vars

\* the chars a document holds
RECURSIVE CharCount(_)
CharCount(rows) == IF rows = <<>> THEN 0 ELSE Len(Head(rows)) + CharCount(Tail(rows))

\* C39: after any sequence of textarea keys (moves, char insert, newline,
\* delete back, delete forward) from any initial content, an empty document
\* included, no operation has panicked, the cursor is on an existing row with x
\* at most the row's length, and every inserted char is stored in the document.
C39_CursorOnARow ==
    /\ [](ta.keys # <<>> =>
            /\ ~ta.t.panic
            /\ ta.t.cursor_position.y < Len(ta.t.document)
            /\ ta.t.cursor_position.x
                   <= Len(ta.t.document[ta.t.cursor_position.y + 1]))
    /\ [][(ta'.keys # ta.keys /\ ta'.keys[Len(ta'.keys)] = "Char")
            => CharCount(ta'.t.document) = CharCount(ta.t.document) + 1]_vars

====
